---- MODULE Spec2Model ----
(***************************************************************************)
(* Model of the end-to-end encryption core of the secure messaging app:    *)
(*   crypto/utils.ts        primitives (HMAC, HKDF, AES, base64)           *)
(*   crypto/x3dh.ts         key material and the X3DH handshake            *)
(*   crypto/doubleRatchet.ts  the symmetric ratchet session engine         *)
(*   services/keyStorage.ts   the keychain-backed key store                *)
(*   services/messagingService.ts  sendMessage / incoming message flow     *)
(*   backend routes/keys    the pre-key directory                          *)
(*                                                                         *)
(* Key material of the external curve library is represented by           *)
(* constant-filled byte arrays whose fill byte encodes the algebraic term: *)
(*     k            (1..7)  a private scalar / seed                        *)
(*     16 + k               x25519.getPublicKey(k)                         *)
(*     32 + k               ed25519.getPublicKey(k)                        *)
(*     64 + 8*min + max     x25519 shared secret of scalars a,b (a.B = b.A)*)
(*     128 + 8*a + b        x25519 of scalar a with the bytes of the       *)
(*                          Ed25519 public key of seed b (not a DH pair)   *)
(*     192 + 8*m + s        ed25519 signature by seed s over 16+m          *)
(***************************************************************************)
EXTENDS Integers, Sequences, FiniteSets, TLC

\* ------------------------------------------------------------------ bounds
\* number of distinct private scalars / seeds random generation may return
NumScalars == 3
\* number of distinct plaintexts
NumPlain == 2
\* longest run of ratchet steps explored on one chain
MaxSteps == 3
\* one-time pre-keys a device uploads, and concurrent bundle requests
NumPreKeys == 2
NumRequests == 2
NumDevices == 2

Scalars == 1..NumScalars
Plaintexts == 1..NumPlain

\* ------------------------------------------------------------ byte arrays
\* A Uint8Array is kept run-length encoded: the sequence of its maximal runs
\* [n |-> length, b |-> byte], so 32 zero bytes are <<[n |-> 32, b |-> 0]>>.
Fill(n, b) == IF n = 0 THEN <<>> ELSE <<[n |-> n, b |-> b]>>

Min(a, b) == IF a < b THEN a ELSE b
Max(a, b) == IF a < b THEN b ELSE a

\* a.length
RECURSIVE ByteLen(_)
ByteLen(a) == IF a = <<>> THEN 0 ELSE a[1].n + ByteLen(Tail(a))

\* a followed by c (set() of both into a fresh array)
Cat(a, c) ==
    IF a = <<>> THEN c
    ELSE IF c = <<>> THEN a
    ELSE IF a[Len(a)].b = c[1].b
    THEN SubSeq(a, 1, Len(a) - 1)
         \o <<[n |-> a[Len(a)].n + c[1].n, b |-> c[1].b]>>
         \o Tail(c)
    ELSE a \o c

RECURSIVE TakeBytes(_, _)
TakeBytes(a, k) ==
    IF k <= 0 \/ a = <<>> THEN <<>>
    ELSE IF a[1].n <= k THEN Cat(<<a[1]>>, TakeBytes(Tail(a), k - a[1].n))
    ELSE <<[n |-> k, b |-> a[1].b]>>

RECURSIVE DropBytes(_, _)
DropBytes(a, k) ==
    IF k <= 0 \/ a = <<>> THEN a
    ELSE IF a[1].n <= k THEN DropBytes(Tail(a), k - a[1].n)
    ELSE <<[n |-> a[1].n - k, b |-> a[1].b]>> \o Tail(a)

\* a.slice(from, to)
Slice(a, from, to) == DropBytes(TakeBytes(a, to), from)

\* a[0]
FirstByte(a) == a[1].b

\* the array holding the listed bytes
RECURSIVE Bytes(_)
Bytes(list) ==
    IF list = <<>> THEN <<>> ELSE Cat(Fill(1, list[1]), Bytes(Tail(list)))


\* Array.find / Model.findOne: index of the first matching element, 0 if
\* none; matches[j] tells whether element j satisfies the filter
RECURSIVE FindOne(_, _)
FindOne(matches, i) ==
    IF i > Len(matches) THEN 0
    ELSE IF matches[i] THEN i
    ELSE FindOne(matches, i + 1)

\* absent optional byte array (undefined)
Undefined == <<[undefined |-> TRUE]>>
\* absent optional object (null / undefined)
Null == [isNull |-> TRUE]

\* generateRandomBytes(32): one of the scalars, as 32 bytes
GenerateRandomBytes == {Fill(32, k) : k \in Scalars}

\* ------------------------------------------------------- crypto/utils.ts
\* a digest that depends on message and key (what HMAC is meant to return)
RECURSIVE HashBytes(_)
HashBytes(a) ==
    IF a = <<>> THEN 0
    ELSE (31 * HashBytes(Tail(a)) + 7 * a[1].b + a[1].n) % 65521

HmacSha256Digest(message, key) ==
    Fill(32, (HashBytes(message) + 131 * HashBytes(key)) % 251)

\* hmacSha256: the digest is computed and dropped; the function returns
\* new Uint8Array(hmac.words.length * 4), a fresh zero-filled array of
\* 8 * 4 bytes
HmacSha256(message, key) ==
    LET words == 8 IN Fill(words * 4, 0)

RECURSIVE HkdfExpand(_, _, _, _, _, _)
HkdfExpand(prk, info, length, t, counter, output) ==
    IF ByteLen(output) < length
    THEN LET data == Cat(Cat(t, info), Fill(1, counter % 256))
             t2 == HmacSha256(data, prk)
             remaining == length - ByteLen(output)
             toCopy == Min(ByteLen(t2), remaining)
         IN HkdfExpand(prk, info, length, t2, counter + 1,
                       Cat(output, Slice(t2, 0, toCopy)))
    ELSE output

\* hkdf(inputKeyMaterial, salt, info, length)
Hkdf(inputKeyMaterial, salt, info, length) ==
    LET prk == HmacSha256(inputKeyMaterial, salt)
    IN HkdfExpand(prk, info, length, <<>>, 1, <<>>)

\* AES-256-CBC with PKCS7: the Base64 string aes256Encrypt returns stands
\* for the triple it was made from; plaintext 0 is the empty string
\* aes256Encrypt: the Base64 text of the ciphertext, kept as what it decrypts
\* to under its key and iv.  Under any other key CryptoJS returns whatever
\* the unchecked padding leaves: a text that is not the plaintext, or bytes
\* whose UTF-8 decoding throws; which of the two depends on the bytes
\* (otherwise).
Aes256Encrypt(plaintext, key, iv) ==
    [aesPlain |-> plaintext, aesKey |-> key, aesIv |-> iv,
     otherwise |-> "text"]

\* decrypted.toString(CryptoJS.enc.Utf8) throws 'Malformed UTF-8 data'
Aes256DecryptThrows(ciphertext, key, iv) ==
    /\ ~ (ciphertext.aesKey = key /\ ciphertext.aesIv = iv)
    /\ ciphertext.otherwise = "malformed"

\* decryption that returns nothing
Aes256DecryptBroken(ciphertext, key, iv) == 0

\* aes256Decrypt when it returns: under another key or iv the result is a
\* text (0, possibly empty) that is not the plaintext
Aes256Decrypt(ciphertext, key, iv) ==
    IF ciphertext.aesKey = key /\ ciphertext.aesIv = iv
    THEN ciphertext.aesPlain
    ELSE 0

\* uint8ArrayToBase64 / base64ToUint8Array: a Base64 string is the wrapped
\* byte array; a missing JSON field is Null and parsing it throws (the
\* callers test IsBase64 first)
Uint8ArrayToBase64(bytes) == [b64 |-> bytes]
Base64ToUint8Array(base64) == base64.b64
IsBase64(x) == x # Null

\* TextEncoder().encode / TextDecoder().decode of a string
TextEncode(str) == [utf8 |-> str]
TextDecode(bytes) == bytes.utf8

\* ---------------------------------------------------------- curve library
X25519GetPublicKey(privateKey) == Fill(32, 16 + FirstByte(privateKey))
Ed25519GetPublicKey(privateKey) == Fill(32, 32 + FirstByte(privateKey))

IsXPub(b) == b >= 17 /\ b <= 23
IsEdPub(b) == b >= 33 /\ b <= 39

\* x25519.getSharedSecret(privateKey, publicKey)
X25519GetSharedSecret(privateKey, publicKey) ==
    LET a == FirstByte(privateKey)
        u == FirstByte(publicKey)
    IN IF IsXPub(u)
       THEN Fill(32, 64 + 8 * Min(a, u - 16) + Max(a, u - 16))
       ELSE IF IsEdPub(u)
       THEN Fill(32, 128 + 8 * a + (u - 32))
       ELSE Fill(32, 255)

\* ed25519.sign(message, privateKey)
Ed25519Sign(message, privateKey) ==
    Fill(64, 192 + 8 * (FirstByte(message) - 16) + FirstByte(privateKey))

\* ed25519.verify(signature, message, publicKey); throws on malformed input
Ed25519Verify(signature, message, publicKey) ==
    /\ ByteLen(signature) = 64
    /\ ByteLen(publicKey) = 32
    /\ IsEdPub(FirstByte(publicKey))
    /\ publicKey = Fill(32, FirstByte(publicKey))
    /\ IsXPub(FirstByte(message))
    /\ message = Fill(32, FirstByte(message))
    /\ signature = Ed25519Sign(message, Fill(32, FirstByte(publicKey) - 32))

\* ---------------------------------------------------------- crypto/x3dh.ts
GenerateIdentityKeyPair(privateKey) ==
    [privateKey |-> privateKey, publicKey |-> Ed25519GetPublicKey(privateKey)]

GenerateSignedPreKey(identityKeyPair, keyId, privateKey) ==
    LET publicKey == X25519GetPublicKey(privateKey)
    IN [keyId |-> keyId,
        keyPair |-> [privateKey |-> privateKey, publicKey |-> publicKey],
        signature |-> Ed25519Sign(publicKey, identityKeyPair.privateKey)]

\* generatePreKeys counting its ids from startId + 1
GeneratePreKeysOneBased(startId, count, privs) ==
    [i \in 1..count |->
        [keyId |-> startId + i,
         keyPair |-> [privateKey |-> privs[i],
                      publicKey |-> X25519GetPublicKey(privs[i])]]]

\* generatePreKeys(startId, count); privs[i] is the i-th random private key
GeneratePreKeys(startId, count, privs) ==
    [i \in 1..count |->
        [keyId |-> startId + (i - 1),
         keyPair |-> [privateKey |-> privs[i],
                      publicKey |-> X25519GetPublicKey(privs[i])]]]

\* a verification that accepts the signature of any identity
VerifySignedPreKeyAnyIdentity(publicKey, signature, identityKey) ==
    \E k \in 1..7 :
        Ed25519Verify(signature, publicKey, Ed25519GetPublicKey(Fill(32, k)))

VerifySignedPreKey(publicKey, signature, identityKey) ==
    Ed25519Verify(signature, publicKey, identityKey)

\* 'SecurePoliceMessaging_X3DH'
X3DH_INFO ==
    Bytes(<<83, 101, 99, 117, 114, 101, 80, 111, 108, 105, 99, 101, 77, 101,
            115, 115, 97, 103, 105, 110, 103, 95, 88, 51, 68, 72>>)

\* DH1 || DH2 || DH3 [|| DH4] as x3dhInitiator concatenates them
X3dhInitiatorDH(identityKeyPair, remotePreKeyBundle, ephemeralPrivate) ==
    LET dh1 == X25519GetSharedSecret(Slice(identityKeyPair.privateKey, 0, 32),
                                     remotePreKeyBundle.signedPreKey)
        dh2 == X25519GetSharedSecret(ephemeralPrivate,
                                     remotePreKeyBundle.identityKey)
        dh3 == X25519GetSharedSecret(ephemeralPrivate,
                                     remotePreKeyBundle.signedPreKey)
        dhOutputs == Cat(Cat(dh1, dh2), dh3)
    IN IF remotePreKeyBundle.preKey # Undefined
       THEN Cat(dhOutputs, X25519GetSharedSecret(ephemeralPrivate,
                                                 remotePreKeyBundle.preKey))
       ELSE dhOutputs

X3dhInitiator(identityKeyPair, remotePreKeyBundle, ephemeralPrivate) ==
    LET dhOutputs == X3dhInitiatorDH(identityKeyPair, remotePreKeyBundle,
                                     ephemeralPrivate)
        salt == Fill(32, 0)
    IN [sharedSecret |-> Hkdf(dhOutputs, salt, X3DH_INFO, 32),
        ephemeralKey |-> X25519GetPublicKey(ephemeralPrivate)]

X3dhResponderDH(identityKeyPair, signedPreKey, oneTimePreKey, remoteIdentityKey, remoteEphemeralKey) ==
    LET dh1 == X25519GetSharedSecret(signedPreKey.keyPair.privateKey,
                                     Slice(remoteIdentityKey, 0, 32))
        dh2 == X25519GetSharedSecret(Slice(identityKeyPair.privateKey, 0, 32),
                                     remoteEphemeralKey)
        dh3 == X25519GetSharedSecret(signedPreKey.keyPair.privateKey,
                                     remoteEphemeralKey)
        dhOutputs == Cat(Cat(dh1, dh2), dh3)
    IN IF oneTimePreKey # Null
       THEN Cat(dhOutputs,
                X25519GetSharedSecret(oneTimePreKey.keyPair.privateKey,
                                      remoteEphemeralKey))
       ELSE dhOutputs

X3dhResponder(identityKeyPair, signedPreKey, oneTimePreKey, remoteIdentityKey, remoteEphemeralKey) ==
    LET dhOutputs == X3dhResponderDH(identityKeyPair, signedPreKey,
                                     oneTimePreKey, remoteIdentityKey,
                                     remoteEphemeralKey)
        salt == Fill(32, 0)
    IN Hkdf(dhOutputs, salt, X3DH_INFO, 32)

\* ------------------------------------------------- crypto/doubleRatchet.ts
\* 'MessageKeys', 'ChainKey', 'RootKey'
MESSAGE_KEY_SEED ==
    Bytes(<<77, 101, 115, 115, 97, 103, 101, 75, 101, 121, 115>>)
CHAIN_KEY_SEED == Bytes(<<67, 104, 97, 105, 110, 75, 101, 121>>)
ROOT_KEY_SEED == Bytes(<<82, 111, 111, 116, 75, 101, 121>>)

\* initializeSession(sharedSecret, remoteIdentityKey, isInitiator); now is
\* the text of Date.now() that the sessionId "session_<now>_<random>" starts
\* with
\* initializeSession that sets both chains whatever the role
InitializeSessionBothChains(sharedSecret, remoteIdentityKey, isInitiator, now) ==
    LET salt == Fill(32, 0)
        rootKey == Hkdf(sharedSecret, salt, ROOT_KEY_SEED, 32)
        chainKey == Hkdf(sharedSecret, salt, CHAIN_KEY_SEED, 32)
    IN [sessionId |-> now,
        remoteIdentityKey |-> remoteIdentityKey,
        rootKey |-> rootKey,
        chainKey |-> chainKey,
        sendingChainKey |-> chainKey,
        receivingChainKey |-> chainKey,
        messageNumber |-> 0,
        previousCounter |-> 0]

InitializeSession(sharedSecret, remoteIdentityKey, isInitiator, now) ==
    LET salt == Fill(32, 0)
        rootKey == Hkdf(sharedSecret, salt, ROOT_KEY_SEED, 32)
        chainKey == Hkdf(sharedSecret, salt, CHAIN_KEY_SEED, 32)
    IN [sessionId |-> now,
        remoteIdentityKey |-> remoteIdentityKey,
        rootKey |-> rootKey,
        chainKey |-> chainKey,
        sendingChainKey |-> IF isInitiator THEN chainKey ELSE Undefined,
        receivingChainKey |-> IF isInitiator THEN Undefined ELSE chainKey,
        messageNumber |-> 0,
        previousCounter |-> 0]

RatchetChainKey(chainKey) ==
    [newChainKey |-> HmacSha256(Bytes(<<2>>), chainKey),
     messageKey |-> HmacSha256(Bytes(<<1>>), chainKey)]

DeriveMessageKeys(messageKey) ==
    LET salt == Fill(32, 0)
        keyMaterial == Hkdf(messageKey, salt, MESSAGE_KEY_SEED, 80)
    IN [cipherKey |-> Slice(keyMaterial, 0, 32),
        macKey |-> Slice(keyMaterial, 32, 64),
        iv |-> Slice(keyMaterial, 64, 80)]

\* ratchetEncrypt that falls back to chainKey when there is no sending chain
RatchetEncryptAnyChain(session, plaintext) ==
    LET r == RatchetChainKey(session.chainKey)
        messageKeys == DeriveMessageKeys(r.messageKey)
        ciphertext == Aes256Encrypt(plaintext, messageKeys.cipherKey,
                                    messageKeys.iv)
    IN [ok |-> TRUE,
        encrypted |-> [type |-> "message",
                       registrationId |-> 0,
                       messageVersion |-> 1,
                       ciphertext |-> TextEncode(ciphertext)],
        newSession |-> [session EXCEPT
                           !.sendingChainKey = r.newChainKey,
                           !.messageNumber = session.messageNumber + 1]]

\* ratchetEncrypt that records previousCounter as ratchetDecrypt does
RatchetEncryptSetsPrevious(session, plaintext) ==
    IF session.sendingChainKey = Undefined
    THEN [ok |-> FALSE, error |-> "No sending chain key available"]
    ELSE LET r == RatchetChainKey(session.sendingChainKey)
             messageKeys == DeriveMessageKeys(r.messageKey)
             ciphertext == Aes256Encrypt(plaintext, messageKeys.cipherKey,
                                         messageKeys.iv)
         IN [ok |-> TRUE,
             encrypted |-> [type |-> "message",
                            registrationId |-> 0,
                            messageVersion |-> 1,
                            ciphertext |-> TextEncode(ciphertext)],
             newSession |-> [session EXCEPT
                                !.sendingChainKey = r.newChainKey,
                                !.previousCounter = session.messageNumber,
                                !.messageNumber = session.messageNumber + 1]]

\* ratchetEncrypt(session, plaintext): a thrown error is [ok |-> FALSE, ...]
RatchetEncrypt(session, plaintext) ==
    IF session.sendingChainKey = Undefined
    THEN [ok |-> FALSE, error |-> "No sending chain key available"]
    ELSE LET r == RatchetChainKey(session.sendingChainKey)
             messageKeys == DeriveMessageKeys(r.messageKey)
             ciphertext == Aes256Encrypt(plaintext, messageKeys.cipherKey,
                                         messageKeys.iv)
         IN [ok |-> TRUE,
             encrypted |-> [type |-> "message",
                            registrationId |-> 0,
                            messageVersion |-> 1,
                            ciphertext |-> TextEncode(ciphertext)],
             newSession |-> [session EXCEPT
                                !.sendingChainKey = r.newChainKey,
                                !.messageNumber = session.messageNumber + 1]]

\* ratchetDecrypt that leaves previousCounter as it was
RatchetDecryptKeepsPrevious(session, encrypted) ==
    IF session.receivingChainKey = Undefined
    THEN [ok |-> FALSE, error |-> "No receiving chain key available"]
    ELSE LET r == RatchetChainKey(session.receivingChainKey)
             messageKeys == DeriveMessageKeys(r.messageKey)
             ciphertextStr == TextDecode(encrypted.ciphertext)
             plaintext == Aes256Decrypt(ciphertextStr, messageKeys.cipherKey,
                                        messageKeys.iv)
         IN IF Aes256DecryptThrows(ciphertextStr, messageKeys.cipherKey,
                                   messageKeys.iv)
            THEN [ok |-> FALSE, error |-> "Malformed UTF-8 data"]
            ELSE
            [ok |-> TRUE,
             plaintext |-> plaintext,
             newSession |-> [session EXCEPT
                                !.receivingChainKey = r.newChainKey,
                                !.messageNumber = session.messageNumber + 1]]

\* ratchetDecrypt(session, encrypted)
RatchetDecrypt(session, encrypted) ==
    IF session.receivingChainKey = Undefined
    THEN [ok |-> FALSE, error |-> "No receiving chain key available"]
    ELSE LET r == RatchetChainKey(session.receivingChainKey)
             messageKeys == DeriveMessageKeys(r.messageKey)
             ciphertextStr == TextDecode(encrypted.ciphertext)
             plaintext == Aes256Decrypt(ciphertextStr, messageKeys.cipherKey,
                                        messageKeys.iv)
         IN IF Aes256DecryptThrows(ciphertextStr, messageKeys.cipherKey,
                                   messageKeys.iv)
            THEN [ok |-> FALSE, error |-> "Malformed UTF-8 data"]
            ELSE
            [ok |-> TRUE,
             plaintext |-> plaintext,
             newSession |-> [session EXCEPT
                                !.receivingChainKey = r.newChainKey,
                                !.previousCounter = session.messageNumber,
                                !.messageNumber = session.messageNumber + 1]]

\* Uint8Array.fill(0)
ZeroFill(a) == Fill(ByteLen(a), 0)

\* the key buffers ratchetEncrypt / ratchetDecrypt allocated for one message
\* on the given chain key, as they are when the function returns: their
\* bytes, and whether fill(0) was called on them (lines 140-143, 180-183).
\* keyMaterial is the hkdf output inside deriveMessageKeys, of which
\* cipherKey, macKey and iv are slice() copies.
BuffersAtReturn(chainKey) ==
    LET messageKey == RatchetChainKey(chainKey).messageKey
        keyMaterial == Hkdf(messageKey, Fill(32, 0), MESSAGE_KEY_SEED, 80)
        messageKeys == DeriveMessageKeys(messageKey)
    IN [messageKey |-> [bytes |-> ZeroFill(messageKey), filled |-> TRUE],
        cipherKey |-> [bytes |-> ZeroFill(messageKeys.cipherKey),
                       filled |-> TRUE],
        macKey |-> [bytes |-> ZeroFill(messageKeys.macKey), filled |-> TRUE],
        iv |-> [bytes |-> messageKeys.iv, filled |-> FALSE],
        keyMaterial |-> [bytes |-> keyMaterial, filled |-> FALSE]]

\* handleSkippedMessage(session, encrypted, skippedCount)
HandleSkippedMessage(session, encrypted, skippedCount) ==
    RatchetDecrypt(session, encrypted)

\* cleanupSession that leaves remoteIdentityKey as it is
CleanupSessionKeepsIdentity(session) ==
    [session EXCEPT
        !.rootKey = ZeroFill(@),
        !.chainKey = ZeroFill(@),
        !.sendingChainKey = IF @ # Undefined THEN ZeroFill(@) ELSE @,
        !.receivingChainKey = IF @ # Undefined THEN ZeroFill(@) ELSE @]

\* cleanupSession(session): the session object after the call
CleanupSession(session) ==
    [session EXCEPT
        !.rootKey = ZeroFill(@),
        !.chainKey = ZeroFill(@),
        !.sendingChainKey = IF @ # Undefined THEN ZeroFill(@) ELSE @,
        !.receivingChainKey = IF @ # Undefined THEN ZeroFill(@) ELSE @,
        !.remoteIdentityKey = ZeroFill(@)]

\* the message key ratchetEncrypt / ratchetDecrypt derive for the next
\* message of a chain, and the keys cut from it
NextMessageKey(chainKey) == RatchetChainKey(chainKey).messageKey
NextCipherKeys(chainKey) == DeriveMessageKeys(NextMessageKey(chainKey))

\* ------------------------------------------------ services/keyStorage.ts
\* The keychain holds one (username, password) entry per service; a service
\* without one is Null.  Passwords are the JSON texts the functions write,
\* kept as the objects they serialise.

\* storeIdentityKeyPair / getIdentityKeyPair
StoreIdentityKeyPair(keyPair) ==
    [publicKey |-> Uint8ArrayToBase64(keyPair.publicKey),
     privateKey |-> Uint8ArrayToBase64(keyPair.privateKey)]

GetIdentityKeyPair(credentials) ==
    IF credentials = Null THEN Null
    ELSE [publicKey |-> Base64ToUint8Array(credentials.publicKey),
          privateKey |-> Base64ToUint8Array(credentials.privateKey)]

\* storeSignedPreKey / getSignedPreKey: one entry, read without an id
StoreSignedPreKey(signedPreKey) ==
    [keyId |-> signedPreKey.keyId,
     publicKey |-> Uint8ArrayToBase64(signedPreKey.keyPair.publicKey),
     privateKey |-> Uint8ArrayToBase64(signedPreKey.keyPair.privateKey),
     signature |-> Uint8ArrayToBase64(signedPreKey.signature)]

GetSignedPreKey(credentials) ==
    IF credentials = Null THEN Null
    ELSE [keyId |-> credentials.keyId,
          keyPair |-> [publicKey |-> Base64ToUint8Array(credentials.publicKey),
                       privateKey |->
                           Base64ToUint8Array(credentials.privateKey)],
          signature |-> Base64ToUint8Array(credentials.signature)]

\* storePreKeys / getPreKey / deletePreKey
StorePreKeys(preKeys) ==
    [username |-> "prekeys",
     password |->
        [i \in 1..Len(preKeys) |->
            [keyId |-> preKeys[i].keyId,
             publicKey |-> Uint8ArrayToBase64(preKeys[i].keyPair.publicKey),
             privateKey |-> Uint8ArrayToBase64(preKeys[i].keyPair.privateKey)]]]

GetPreKey(credentials, keyId) ==
    IF credentials = Null THEN Null
    ELSE LET data == credentials.password
             matches == [j \in DOMAIN data |-> data[j].keyId = keyId]
             i == FindOne(matches, 1)
         IN IF i = 0 THEN Null
            ELSE [keyId |-> data[i].keyId,
                  keyPair |->
                      [publicKey |-> Base64ToUint8Array(data[i].publicKey),
                       privateKey |-> Base64ToUint8Array(data[i].privateKey)]]

RECURSIVE FilterOut(_, _)
FilterOut(data, keyId) ==
    IF data = <<>> THEN <<>>
    ELSE IF data[1].keyId # keyId
    THEN <<data[1]>> \o FilterOut(Tail(data), keyId)
    ELSE FilterOut(Tail(data), keyId)

\* a filter that drops the entries up to and including the matching one
RECURSIVE FilterOutThrough(_, _)
FilterOutThrough(data, keyId) ==
    IF data = <<>> THEN <<>>
    ELSE IF data[1].keyId # keyId
    THEN IF \E j \in DOMAIN data : data[j].keyId = keyId
         THEN FilterOutThrough(Tail(data), keyId)
         ELSE data
    ELSE Tail(data)

\* deletePreKey rewriting the entry with that filter
DeletePreKeyThrough(credentials, keyId) ==
    IF credentials = Null THEN Null
    ELSE [username |-> "prekeys",
          password |-> FilterOutThrough(credentials.password, keyId)]

\* deletePreKey: the entry it rewrites, from the entry it read
DeletePreKey(credentials, keyId) ==
    IF credentials = Null THEN Null
    ELSE [username |-> "prekeys",
          password |-> FilterOut(credentials.password, keyId)]

\* storeSession: the entry written to the one sessions service; the user id
\* goes into the username
StoreSession(userId, session) ==
    [username |-> <<"session_", userId>>,
     password |->
        [sessionId |-> session.sessionId,
         remoteIdentityKey |-> Uint8ArrayToBase64(session.remoteIdentityKey),
         rootKey |-> Uint8ArrayToBase64(session.rootKey),
         chainKey |-> Uint8ArrayToBase64(session.chainKey),
         sendingChainKey |->
             IF session.sendingChainKey # Undefined
             THEN Uint8ArrayToBase64(session.sendingChainKey) ELSE Null,
         receivingChainKey |->
             IF session.receivingChainKey # Undefined
             THEN Uint8ArrayToBase64(session.receivingChainKey) ELSE Null,
         messageNumber |-> session.messageNumber,
         previousCounter |-> session.previousCounter]]

IsPrefix(a, c) == Len(a) <= Len(c) /\ SubSeq(c, 1, Len(a)) = a

\* credentials.password.includes(`session_${userId}`): the JSON text holds
\* "session_" once, at the start of the sessionId value
\* session_<Date.now()>_<random>; Base64 text has no underscore.  The text
\* includes the needle iff userId is a prefix of what follows "session_".
PasswordIncludesSessionOf(password, userId) ==
    IsPrefix(userId, password.sessionId)

\* getSession
GetSession(credentials, userId) ==
    IF credentials = Null
       \/ ~ PasswordIncludesSessionOf(credentials.password, userId)
    THEN Null
    ELSE LET data == credentials.password
         IN [sessionId |-> data.sessionId,
             remoteIdentityKey |-> Base64ToUint8Array(data.remoteIdentityKey),
             rootKey |-> Base64ToUint8Array(data.rootKey),
             chainKey |-> Base64ToUint8Array(data.chainKey),
             sendingChainKey |->
                 IF data.sendingChainKey # Null
                 THEN Base64ToUint8Array(data.sendingChainKey) ELSE Undefined,
             receivingChainKey |->
                 IF data.receivingChainKey # Null
                 THEN Base64ToUint8Array(data.receivingChainKey)
                 ELSE Undefined,
             messageNumber |-> data.messageNumber,
             previousCounter |-> data.previousCounter]

\* -------------------------------------- services/messagingService.ts (pure)
\* the JSON a directory serves for a pre-key bundle; signature and preKey
\* may be missing (Null)
BundleResponse(identityKey, signedPreKey, keyId, signature, preKey) ==
    [identityKey |-> Uint8ArrayToBase64(identityKey),
     signedPreKey |-> [publicKey |-> Uint8ArrayToBase64(signedPreKey),
                       keyId |-> keyId,
                       signature |-> IF signature = Undefined THEN Null
                                     ELSE Uint8ArrayToBase64(signature)],
     preKey |-> IF preKey = Null THEN Null
                ELSE [publicKey |-> Uint8ArrayToBase64(preKey.keyPair.publicKey),
                      keyId |-> preKey.keyId],
     registrationId |-> 0]

\* establishSession, lines 192-200: the PreKeyBundle parsed from the response
\* (preKeyId 0 stands for undefined)
ParseBundle(data) ==
    [identityKey |-> Base64ToUint8Array(data.identityKey),
     signedPreKey |-> Base64ToUint8Array(data.signedPreKey.publicKey),
     signedPreKeyId |-> data.signedPreKey.keyId,
     signedPreKeySignature |-> Base64ToUint8Array(data.signedPreKey.signature),
     preKey |-> IF data.preKey # Null
                THEN Base64ToUint8Array(data.preKey.publicKey) ELSE Undefined,
     preKeyId |-> IF data.preKey # Null THEN data.preKey.keyId ELSE 0,
     registrationId |-> data.registrationId]

\* establishSession that logs a failed verification and carries on
EstablishSessionUnverified(data, identityKeyPair, ephemeralPrivate, now) ==
    IF ~ IsBase64(data.signedPreKey.signature)
    THEN [ok |-> FALSE, error |-> "TypeError", x3dhCalled |-> FALSE]
    ELSE LET bundle == ParseBundle(data)
             r == X3dhInitiator(identityKeyPair, bundle, ephemeralPrivate)
         IN [ok |-> TRUE, x3dhCalled |-> TRUE, bundle |-> bundle,
             ephemeralKey |-> r.ephemeralKey,
             session |-> InitializeSession(r.sharedSecret, bundle.identityKey,
                                           TRUE, now)]

\* establishSession, lines 192-229, up to the session it is about to store:
\* data is the response body, identityKeyPair what getIdentityKeyPair()
\* returned (Null if none)
EstablishSession(data, identityKeyPair, ephemeralPrivate, now) ==
    IF ~ IsBase64(data.signedPreKey.signature)
    THEN [ok |-> FALSE, error |-> "TypeError", x3dhCalled |-> FALSE]
    ELSE LET bundle == ParseBundle(data)
             isValid == VerifySignedPreKey(bundle.signedPreKey,
                                           bundle.signedPreKeySignature,
                                           bundle.identityKey)
         IN IF ~ isValid
            THEN [ok |-> FALSE, error |-> "Invalid signed pre-key signature",
                  x3dhCalled |-> FALSE]
            ELSE IF identityKeyPair = Null
            THEN [ok |-> FALSE, error |-> "No identity key pair found",
                  x3dhCalled |-> FALSE]
            ELSE LET r == X3dhInitiator(identityKeyPair, bundle,
                                        ephemeralPrivate)
                 IN [ok |-> TRUE, x3dhCalled |-> TRUE, bundle |-> bundle,
                     ephemeralKey |-> r.ephemeralKey,
                     session |-> InitializeSession(r.sharedSecret,
                                                   bundle.identityKey,
                                                   TRUE, now)]

\* establishSessionAsResponder(encryptedData), up to the session it returns:
\* identityKeyPair and signedPreKey are what getIdentityKeyPair() and
\* getSignedPreKey() returned.  The one-time pre-key argument is the literal
\* null; dhLength is the length of the DH concatenation x3dhResponder hashed.
EstablishSessionAsResponder(encryptedData, identityKeyPair, signedPreKey, now) ==
    IF identityKeyPair = Null \/ signedPreKey = Null
    THEN [ok |-> FALSE, error |-> "Missing local keys"]
    ELSE IF ~ IsBase64(encryptedData.remoteIdentityKey)
            \/ ~ IsBase64(encryptedData.ephemeralKey)
    THEN [ok |-> FALSE, error |-> "TypeError"]
    ELSE LET remoteIdentityKey ==
                 Base64ToUint8Array(encryptedData.remoteIdentityKey)
             remoteEphemeralKey ==
                 Base64ToUint8Array(encryptedData.ephemeralKey)
             sharedSecret == X3dhResponder(identityKeyPair, signedPreKey,
                                           Null, remoteIdentityKey,
                                           remoteEphemeralKey)
         IN [ok |-> TRUE,
             dhLength |-> ByteLen(X3dhResponderDH(identityKeyPair,
                                                  signedPreKey, Null,
                                                  remoteIdentityKey,
                                                  remoteEphemeralKey)),
             session |-> InitializeSession(sharedSecret, remoteIdentityKey,
                                           FALSE, now)]

\* sendMessage, lines 150-157: the body posted to /messages
MessagePayload(toUserId, encrypted) ==
    [toUserId |-> toUserId,
     type |-> "text",
     encryptedContent |-> Uint8ArrayToBase64(encrypted.ciphertext),
     messageType |-> encrypted.type,
     registrationId |-> encrypted.registrationId]

\* decryptIncomingMessage, lines 258-263: the EncryptedMessage rebuilt from
\* the socket event
IncomingEncrypted(encryptedData) ==
    [type |-> encryptedData.messageType,
     registrationId |-> encryptedData.registrationId,
     messageVersion |-> 1,
     ciphertext |-> Base64ToUint8Array(encryptedData.encryptedContent)]

\* Date.now() as the text a sessionId starts with: milliseconds since 1970
\* read "17..." from 2023 to 2033
Timestamps == {<<1, 7, 6>>, <<1, 7, 7>>}

VARIABLES
    \* --- handshake functions called with generated keys (crypto.test.ts)
    xPhase,     \* "none" | "keys" | "initiated" | "responded" | "established"
    xAlice,     \* the initiator's identity key pair
    xBob,       \* the responder's identity, signed pre-key and one-time key
    xData,      \* the bundle response the initiator is given
    xInit,      \* what x3dhInitiator returned
    xResp,      \* what x3dhResponder returned
    xEst,       \* what establishSession computed
    \* --- a pair of complementary sessions driven directly
    rIni,       \* the initiator's SessionState (Null before initializeSession)
    rRes,       \* the responder's SessionState
    rSent,      \* the initiator's outputs, in order
    rLast,      \* the responder's last ratchetDecrypt
    \* --- the backend's pre-key directory (Device and PreKey collections)
    kDevices,   \* Device documents, in insertion order
    kPreKeys,   \* PreKey documents, in insertion order
    kReqs,      \* GET /keys/:userId requests in progress
    \* --- one device's MessagingService over its keychain
    sKeychain,  \* the keychain entry of each service (Null if none)
    sTasks,     \* the sendMessage / socket 'message' calls in progress
    sCalls,     \* calls started so far
    sLog,       \* what the calls did: handshakes, ratchet steps, posts
    \* --- the local pre-key pool driven directly
    pPreKeys,   \* the keychain entry of the prekeys service (Null if none)
    pTasks,     \* the deletePreKey calls in progress
    pLast,      \* the last deletePreKey that completed, Null before any
    \* --- one hkdf call, iteration by iteration
    hCall,      \* the call's arguments and locals; pc "idle" before any
    \* --- session objects and the Uint8Array buffers their fields point to
    bHeap,      \* the buffers' contents, by allocation order
    bSessions,  \* the SessionState objects: each key field names a buffer
    bLast       \* the last call made on them, Null before any

xVars == <<xPhase, xAlice, xBob, xData, xInit, xResp, xEst>>
rVars == <<rIni, rRes, rSent, rLast>>
kVars == <<kDevices, kPreKeys, kReqs>>
sVars == <<sKeychain, sTasks, sCalls, sLog>>
pVars == <<pPreKeys, pTasks, pLast>>
hVars == <<hCall>>
bVars == <<bHeap, bSessions, bLast>>
vars == <<xVars, rVars, kVars, sVars, pVars, hVars, bVars>>

\* what the actions of one part leave alone
xOthers == <<rVars, kVars, sVars, pVars, hVars, bVars>>
rOthers == <<xVars, kVars, sVars, pVars, hVars, bVars>>
kOthers == <<xVars, rVars, sVars, pVars, hVars, bVars>>
sOthers == <<xVars, rVars, kVars, pVars, hVars, bVars>>
pOthers == <<xVars, rVars, kVars, sVars, hVars, bVars>>
hOthers == <<xVars, rVars, kVars, sVars, pVars, bVars>>
bOthers == <<xVars, rVars, kVars, sVars, pVars, hVars>>

XInit ==
    /\ xPhase = "none"
    /\ xAlice = Null
    /\ xBob = Null
    /\ xData = Null
    /\ xInit = Null
    /\ xResp = Null
    /\ xEst = Null

\* generatePreKeys arguments: the first id of a batch, and the random
\* private keys of a batch that starts with opk
StartIds == {1, NumPreKeys}
BatchSeeds(opk, count) ==
    [i \in 1..count |-> Fill(32, 1 + ((FirstByte(opk) + i - 2) % NumScalars))]

\* both parties generate keys (the responder a batch of one-time pre-keys,
\* of which the bundle carries the first, or none when the directory has
\* none left); the bundle carries the signature of signer
\* (the responder's own identity, or another one for a forged bundle), or
\* none, as the directory serves it when it stored none
XGenerateKeys ==
    /\ xPhase = "none"
    /\ \E a \in GenerateRandomBytes, b \in GenerateRandomBytes,
          spk \in GenerateRandomBytes, signer \in GenerateRandomBytes,
          opk \in GenerateRandomBytes, withPreKey \in BOOLEAN,
          signed \in BOOLEAN, startId \in StartIds,
          count \in 0..NumPreKeys :
          LET alice == GenerateIdentityKeyPair(a)
              bobId == GenerateIdentityKeyPair(b)
              bobSpk == GenerateSignedPreKey(bobId, 1, spk)
              batch == GeneratePreKeys(startId, count, BatchSeeds(opk, count))
              bobOpk == IF withPreKey THEN batch[1] ELSE Null
              sig == IF signed
                     THEN Ed25519Sign(bobSpk.keyPair.publicKey, signer)
                     ELSE Undefined
          IN /\ withPreKey => count >= 1
             /\ count >= 1 \/ opk = Fill(32, 1)
             /\ signed \/ signer = Fill(32, 1)
             /\ xAlice' = alice
             /\ xBob' = [identity |-> bobId, signedPreKey |-> bobSpk,
                         preKey |-> bobOpk,
                         batch |-> [startId |-> startId, count |-> count,
                                    preKeys |-> batch]]
             /\ xData' = BundleResponse(bobId.publicKey,
                                        bobSpk.keyPair.publicKey,
                                        bobSpk.keyId, sig, bobOpk)
    /\ xPhase' = "keys"
    /\ UNCHANGED <<xInit, xResp, xEst>> /\ UNCHANGED xOthers

\* x3dhInitiator called directly on the bundle (a PreKeyBundle, which has
\* a signature)
XInitiate ==
    /\ xPhase = "keys"
    /\ IsBase64(xData.signedPreKey.signature)
    /\ \E eph \in GenerateRandomBytes :
          xInit' = X3dhInitiator(xAlice, ParseBundle(xData), eph)
    /\ xPhase' = "initiated"
    /\ UNCHANGED <<xAlice, xBob, xData, xResp, xEst>> /\ UNCHANGED xOthers

\* x3dhResponder called with the keys the bundle referenced
XRespond ==
    /\ xPhase = "initiated"
    /\ xResp' = X3dhResponder(xBob.identity, xBob.signedPreKey, xBob.preKey,
                              xAlice.publicKey, xInit.ephemeralKey)
    /\ xPhase' = "responded"
    /\ UNCHANGED <<xAlice, xBob, xData, xInit, xEst>> /\ UNCHANGED xOthers

\* the messaging service's establishSession on the same bundle
XEstablish ==
    /\ xPhase = "keys"
    /\ \E eph \in GenerateRandomBytes, now \in Timestamps :
          xEst' = EstablishSession(xData, xAlice, eph, now)
    /\ xPhase' = "established"
    /\ UNCHANGED <<xAlice, xBob, xData, xInit, xResp>> /\ UNCHANGED xOthers

XReset ==
    /\ xPhase \in {"responded", "established"}
    /\ xPhase' = "none"
    /\ xAlice' = Null
    /\ xBob' = Null
    /\ xData' = Null
    /\ xInit' = Null
    /\ xResp' = Null
    /\ xEst' = Null
    /\ UNCHANGED xOthers

XNext == XGenerateKeys \/ XInitiate \/ XRespond \/ XEstablish \/ XReset


\* ------------------------------------------------- the session pair
RInit ==
    /\ rIni = Null
    /\ rRes = Null
    /\ rSent = <<>>
    /\ rLast = Null

\* initializeSession(s, rk, true) and initializeSession(s, rk', false) from
\* one shared secret, each side with the other's identity key
RInitialize ==
    /\ rIni = Null
    /\ \E s \in GenerateRandomBytes \cup {Fill(32, 0)},
          rkI \in {Ed25519GetPublicKey(k) : k \in GenerateRandomBytes},
          rkR \in {Ed25519GetPublicKey(k) : k \in GenerateRandomBytes},
          now \in Timestamps :
          /\ rIni' = InitializeSession(s, rkI, TRUE, now)
          /\ rRes' = InitializeSession(s, rkR, FALSE, now)
    /\ UNCHANGED <<rSent, rLast>> /\ UNCHANGED rOthers

\* ratchetEncrypt on the initiator's session; the caller keeps newSession
REncrypt ==
    /\ rIni # Null
    /\ Len(rSent) < MaxSteps
    /\ \E plaintext \in Plaintexts :
          LET r == RatchetEncrypt(rIni, plaintext)
          IN /\ r.ok
             /\ rIni' = r.newSession
             /\ rSent' = Append(rSent,
                    [plaintext |-> plaintext,
                     step |-> rIni.messageNumber,
                     chainKey |-> rIni.sendingChainKey,
                     newChainKey |-> r.newSession.sendingChainKey,
                     buffers |-> BuffersAtReturn(rIni.sendingChainKey),
                     messageKey |-> NextMessageKey(rIni.sendingChainKey),
                     keys |-> NextCipherKeys(rIni.sendingChainKey),
                     encrypted |-> r.encrypted])
    /\ UNCHANGED <<rRes, rLast>> /\ UNCHANGED rOthers

\* ratchetDecrypt, or handleSkippedMessage, on the responder's session of
\* the i-th message sent, in any order of arrival
RDecrypt ==
    /\ rRes # Null
    /\ rRes.messageNumber < MaxSteps
    /\ \E i \in 1..Len(rSent), fn \in {"ratchetDecrypt", "handleSkippedMessage"} :
          LET skippedCount == Max(0, rSent[i].step - rRes.messageNumber)
              r == IF fn = "ratchetDecrypt"
                   THEN RatchetDecrypt(rRes, rSent[i].encrypted)
                   ELSE HandleSkippedMessage(rRes, rSent[i].encrypted,
                                             skippedCount)
          IN /\ r.ok
             /\ rRes' = r.newSession
             /\ rLast' = [index |-> i,
                          senderSteps |-> rSent[i].step,
                          receiverSteps |-> rRes.messageNumber,
                          plaintext |-> r.plaintext,
                          fn |-> fn]
    /\ UNCHANGED <<rIni, rSent>> /\ UNCHANGED rOthers

\* ciphertexts made without the receiving chain's keys
ForgedCiphertexts ==
    {[aesPlain |-> p, aesKey |-> Fill(32, 1), aesIv |-> Fill(16, 1),
      otherwise |-> o] : p \in Plaintexts, o \in {"text", "malformed"}}

\* ratchetDecrypt on the responder's session of a forged message; the
\* caller keeps newSession when one is returned
RDecryptForged ==
    /\ rRes # Null
    /\ rRes.messageNumber < MaxSteps
    /\ \E forged \in ForgedCiphertexts :
          LET encrypted == [type |-> "message", registrationId |-> 0,
                            messageVersion |-> 1,
                            ciphertext |-> TextEncode(forged)]
              r == RatchetDecrypt(rRes, encrypted)
          IN /\ rRes' = IF r.ok THEN r.newSession ELSE rRes
             /\ rLast' = [index |-> 0, senderSteps |-> -1,
                          receiverSteps |-> rRes.messageNumber,
                          plaintext |-> IF r.ok THEN r.plaintext ELSE 0,
                          ok |-> r.ok, before |-> rRes, after |-> rRes']
    /\ UNCHANGED <<rIni, rSent>> /\ UNCHANGED rOthers

\* ratchetEncrypt called on the responder's session, which has no sending
\* chain
REncryptOnResponder ==
    /\ rRes # Null
    /\ \E plaintext \in Plaintexts :
          LET r == RatchetEncrypt(rRes, plaintext)
          IN /\ rRes' = IF r.ok THEN r.newSession ELSE rRes
             /\ rLast' = [index |-> -1, senderSteps |-> -1,
                          receiverSteps |-> rRes.messageNumber,
                          plaintext |-> plaintext,
                          fn |-> "ratchetEncrypt", result |-> r,
                          before |-> rRes, after |-> rRes']
    /\ UNCHANGED <<rIni, rSent>> /\ UNCHANGED rOthers

\* ratchetDecrypt called on the initiator's session, which has no receiving
\* chain, with one of its own messages
RDecryptOnInitiator ==
    /\ rIni # Null
    /\ \E i \in 1..Len(rSent) :
          LET r == RatchetDecrypt(rIni, rSent[i].encrypted)
          IN /\ rIni' = IF r.ok THEN r.newSession ELSE rIni
             /\ rLast' = [index |-> -1, senderSteps |-> -1,
                          receiverSteps |-> rIni.messageNumber,
                          plaintext |-> rSent[i].plaintext,
                          fn |-> "ratchetDecrypt", result |-> r,
                          before |-> rIni, after |-> rIni']
    /\ UNCHANGED <<rRes, rSent>> /\ UNCHANGED rOthers

\* cleanupSession called on one of the two sessions, which it overwrites
\* in place
RCleanup ==
    /\ rIni # Null
    /\ \E initiator \in BOOLEAN :
          LET session == IF initiator THEN rIni ELSE rRes
              after == CleanupSession(session)
          IN /\ rIni' = IF initiator THEN after ELSE rIni
             /\ rRes' = IF initiator THEN rRes ELSE after
             /\ rLast' = [index |-> -2, senderSteps |-> -1,
                          receiverSteps |-> session.messageNumber,
                          plaintext |-> 0,
                          fn |-> "cleanupSession",
                          before |-> session, after |-> after]
    /\ UNCHANGED rSent /\ UNCHANGED rOthers

RReset ==
    /\ rIni # Null
    /\ rIni' = Null
    /\ rRes' = Null
    /\ rSent' = <<>>
    /\ rLast' = Null
    /\ UNCHANGED rOthers

RNext ==
    \/ RInitialize
    \/ REncrypt
    \/ RDecrypt
    \/ RDecryptForged
    \/ REncryptOnResponder
    \/ RDecryptOnInitiator
    \/ RCleanup
    \/ RReset

\* ---------------------------------------------- backend: devices and keys
\* the registration payload provisionDevice posts (authService, 228-241) for
\* a device whose keys derive from the given seeds
RegistrationPayload(deviceId, identitySeed, signedPreKeySeed, preKeySeeds) ==
    LET identityKeyPair == GenerateIdentityKeyPair(identitySeed)
        signedPreKey == GenerateSignedPreKey(identityKeyPair, 1,
                                             signedPreKeySeed)
        preKeys == GeneratePreKeys(1, Len(preKeySeeds), preKeySeeds)
    IN [deviceInfo |-> [deviceId |-> deviceId],
        publicIdentityKey |-> Uint8ArrayToBase64(identityKeyPair.publicKey),
        signedPreKey |->
            [keyId |-> signedPreKey.keyId,
             publicKey |-> Uint8ArrayToBase64(signedPreKey.keyPair.publicKey),
             signature |-> Uint8ArrayToBase64(signedPreKey.signature)],
        preKeys |-> [i \in 1..Len(preKeys) |->
                        [keyId |-> preKeys[i].keyId,
                         publicKey |->
                             Uint8ArrayToBase64(preKeys[i].keyPair.publicKey)]]]

\* POST /devices: the Device document created from the body; the uploaded
\* signature is not copied, so signedPreKeySignature stays unset
NewDevice(userId, body) ==
    [userId |-> userId,
     deviceId |-> body.deviceInfo.deviceId,
     publicIdentityKey |-> body.publicIdentityKey,
     publicSignedPreKey |-> body.signedPreKey.publicKey,
     signedPreKeyId |-> body.signedPreKey.keyId,
     signedPreKeySignature |-> Null,
     approved |-> FALSE]

\* POST /devices: the PreKey documents inserted (consumed defaults to false)
NewPreKeyDocs(userId, body) ==
    [i \in 1..Len(body.preKeys) |->
        [userId |-> userId,
         deviceId |-> body.deviceInfo.deviceId,
         keyId |-> body.preKeys[i].keyId,
         publicKey |-> body.preKeys[i].publicKey,
         consumed |-> FALSE,
         consumedBy |-> 0]]

\* GET /keys/:userId, the body of res.json
KeysResponse(device, preKey) ==
    [identityKey |-> device.publicIdentityKey,
     signedPreKey |-> [publicKey |-> device.publicSignedPreKey,
                       keyId |-> device.signedPreKeyId,
                       signature |-> device.signedPreKeySignature],
     preKey |-> IF preKey # Null
                THEN [publicKey |-> preKey.publicKey, keyId |-> preKey.keyId]
                ELSE Null,
     registrationId |-> 0]

\* the user whose bundle is fetched, and the users fetching it
TargetUser == 1
Requesters == 2..(1 + NumRequests)
ReqIds == 1..NumRequests

IdleReq == [pc |-> "idle"]

\* the devices the target user provisions, and what provisionDevice on
\* device d posts: its own identity key, signed pre-key 1 and one-time
\* pre-keys 1..NumPreKeys
DeviceIds == 1..NumDevices
Registration(d) ==
    RegistrationPayload(d, Fill(32, d), Fill(32, d + 1),
                        [i \in 1..NumPreKeys |-> Fill(32, d + 2)])

\* PreKey.insertMany(docs): the documents are inserted in order up to the
\* first one that the unique index {userId, keyId} rejects
RECURSIVE InsertMany(_, _)
InsertMany(collection, docs) ==
    IF docs = <<>> THEN collection
    ELSE IF \E j \in DOMAIN collection :
                /\ collection[j].userId = Head(docs).userId
                /\ collection[j].keyId = Head(docs).keyId
    THEN collection
    ELSE InsertMany(Append(collection, Head(docs)), Tail(docs))

\* the directory before any device was registered
KInit ==
    /\ kDevices = <<>>
    /\ kPreKeys = <<>>
    /\ kReqs = [r \in ReqIds |-> IdleReq]

\* POST /devices from device d of the target user: device.save(), which the
\* unique deviceId allows once, then PreKey.insertMany(preKeyDocs)
KRegister(d) ==
    /\ \A j \in DOMAIN kDevices : kDevices[j].deviceId # d
    /\ kDevices' = Append(kDevices, NewDevice(TargetUser, Registration(d)))
    /\ kPreKeys' = InsertMany(kPreKeys,
                              NewPreKeyDocs(TargetUser, Registration(d)))
    /\ UNCHANGED kReqs /\ UNCHANGED kOthers

\* POST /admin/devices/:id/approve
KApprove(d) ==
    /\ \E j \in DOMAIN kDevices :
          /\ kDevices[j].deviceId = d
          /\ ~ kDevices[j].approved
          /\ kDevices' = [kDevices EXCEPT ![j].approved = TRUE]
    /\ UNCHANGED <<kPreKeys, kReqs>> /\ UNCHANGED kOthers

\* a GET /keys/:userId request arrives
KStart(r) ==
    /\ kReqs[r].pc = "idle"
    /\ \E u \in Requesters, target \in {TargetUser, 1 + NumRequests + 1} :
          kReqs' = [kReqs EXCEPT ![r] =
                       [pc |-> "findDevice", requester |-> u, userId |-> target]]
    /\ UNCHANGED <<kDevices, kPreKeys>> /\ UNCHANGED kOthers

\* await Device.findOne({userId, approved: true})
KFindDevice(r) ==
    /\ kReqs[r].pc = "findDevice"
    /\ LET matches == [j \in DOMAIN kDevices |->
                          /\ kDevices[j].userId = kReqs[r].userId
                          /\ kDevices[j].approved]
           i == FindOne(matches, 1)
       IN kReqs' = [kReqs EXCEPT ![r] =
              IF i = 0
              THEN [pc |-> "done", requester |-> kReqs[r].requester,
                    userId |-> kReqs[r].userId, status |-> 404]
              ELSE [pc |-> "findPreKey", requester |-> kReqs[r].requester,
                    userId |-> kReqs[r].userId, device |-> kDevices[i]]]
    /\ UNCHANGED <<kDevices, kPreKeys>> /\ UNCHANGED kOthers

\* await PreKey.findOne({userId, consumed: false})
KFindPreKey(r) ==
    /\ kReqs[r].pc = "findPreKey"
    /\ LET matches == [j \in DOMAIN kPreKeys |->
                          /\ kPreKeys[j].userId = kReqs[r].userId
                          /\ ~ kPreKeys[j].consumed]
           i == FindOne(matches, 1)
       IN kReqs' = [kReqs EXCEPT ![r] =
              [pc |-> IF i = 0 THEN "respond" ELSE "save",
               requester |-> kReqs[r].requester,
               userId |-> kReqs[r].userId,
               device |-> kReqs[r].device,
               preKeyIndex |-> i,
               preKey |-> IF i = 0 THEN Null ELSE kPreKeys[i]]]
    /\ UNCHANGED <<kDevices, kPreKeys>> /\ UNCHANGED kOthers

\* preKey.consumed = true; ...; await preKey.save()
KSave(r) ==
    /\ kReqs[r].pc = "save"
    /\ kPreKeys' = [kPreKeys EXCEPT
                       ![kReqs[r].preKeyIndex].consumed = TRUE,
                       ![kReqs[r].preKeyIndex].consumedBy = kReqs[r].requester]
    /\ kReqs' = [kReqs EXCEPT ![r].pc = "respond"]
    /\ UNCHANGED kDevices /\ UNCHANGED kOthers

\* res.json(...)
KRespond(r) ==
    /\ kReqs[r].pc = "respond"
    /\ kReqs' = [kReqs EXCEPT ![r] =
           [pc |-> "done", requester |-> kReqs[r].requester,
            userId |-> kReqs[r].userId, status |-> 200,
            body |-> KeysResponse(kReqs[r].device, kReqs[r].preKey)]]
    /\ UNCHANGED <<kDevices, kPreKeys>> /\ UNCHANGED kOthers

\* the identity key pair of the device that sent the request
RequesterIdentity(u) == GenerateIdentityKeyPair(Fill(32, 1 + (u % NumScalars)))

\* the requester's establishSession continues with the response body
\* (lines 192-229); dhLength is the length of the DH concatenation that
\* x3dhInitiator hashed
KEstablish(r) ==
    /\ kReqs[r].pc = "done"
    /\ kReqs[r].status = 200
    /\ \E ephemeralPrivate \in GenerateRandomBytes, now \in Timestamps :
          LET identityKeyPair == RequesterIdentity(kReqs[r].requester)
              e == EstablishSession(kReqs[r].body, identityKeyPair,
                                    ephemeralPrivate, now)
          IN kReqs' = [kReqs EXCEPT ![r] =
                 [pc |-> "established", requester |-> kReqs[r].requester,
                  userId |-> kReqs[r].userId, status |-> 200,
                  body |-> kReqs[r].body,
                  result |->
                      IF e.ok
                      THEN [ok |-> TRUE,
                            dhLength |->
                                ByteLen(X3dhInitiatorDH(identityKeyPair,
                                                        e.bundle,
                                                        ephemeralPrivate))]
                      ELSE [ok |-> FALSE, error |-> e.error]]]
    /\ UNCHANGED <<kDevices, kPreKeys>> /\ UNCHANGED kOthers

\* the requester is finished with the response; it may ask again
KFinish(r) ==
    /\ kReqs[r].pc \in {"done", "established"}
    /\ kReqs' = [kReqs EXCEPT ![r] = IdleReq]
    /\ UNCHANGED <<kDevices, kPreKeys>> /\ UNCHANGED kOthers

KNext ==
    \/ \E d \in DeviceIds : KRegister(d) \/ KApprove(d)
    \/ \E r \in ReqIds :
        \/ KStart(r) \/ KFindDevice(r) \/ KFindPreKey(r) \/ KSave(r)
        \/ KRespond(r) \/ KEstablish(r) \/ KFinish(r)

\* ------------------------------------------------------- specifications
\* ------------------------------------------- the device's messaging service
\* One provisioned device.  Its peers run the same handshake and ratchet
\* functions; what they send arrives as socket 'message' events.
NumTasks == 2
MaxCalls == 2
TaskIds == 1..NumTasks

\* user ids: a Mongo ObjectId reads as hex text ("65a..."); the other id is
\* all decimal digits
Peers == {<<6, 5, 10>>, <<1, 7>>}

\* provisionDevice: identity key, signed pre-key 1, one-time pre-keys from 1
LocalIdentity == GenerateIdentityKeyPair(Fill(32, 1))
LocalSignedPreKey(keyId) ==
    GenerateSignedPreKey(LocalIdentity, keyId, Fill(32, keyId + 1))
LocalPreKeys ==
    GeneratePreKeys(1, NumPreKeys, [i \in 1..NumPreKeys |-> Fill(32, i)])

ProvisionedKeychain ==
    [identity |-> StoreIdentityKeyPair(LocalIdentity),
     signedprekey |-> StoreSignedPreKey(LocalSignedPreKey(1)),
     prekeys |-> StorePreKeys(LocalPreKeys),
     sessions |-> Null]

\* a peer's keys, as its own provisionDevice made them
RemoteIdentity == GenerateIdentityKeyPair(Fill(32, 2))
RemoteSignedPreKey == GenerateSignedPreKey(RemoteIdentity, 1, Fill(32, 3))
RemotePreKey == GeneratePreKeys(1, 1, <<Fill(32, 1)>>)[1]

\* what GET /keys/:userId may answer: the peer's bundle with or without a
\* one-time pre-key, with a signature made by another identity, or with the
\* signature field absent
BundleResponses ==
    {BundleResponse(RemoteIdentity.publicKey,
                    RemoteSignedPreKey.keyPair.publicKey, 1,
                    RemoteSignedPreKey.signature, preKey) :
        preKey \in {Null, RemotePreKey}}
    \cup {BundleResponse(RemoteIdentity.publicKey,
                         RemoteSignedPreKey.keyPair.publicKey, 1,
                         signature, Null) :
            signature \in {Ed25519Sign(RemoteSignedPreKey.keyPair.publicKey,
                                       LocalIdentity.privateKey),
                           Undefined}}

\* The socket event for a peer's first message.  The peer ran x3dhInitiator
\* on this device's bundle (signed pre-key generation signedPreKeyId, one-time
\* pre-key preKeyId or none when 0), initializeSession and ratchetEncrypt.
\* With handshake the event carries the fields establishSessionAsResponder
\* reads and the key ids of a prekey EncryptedMessage; without, it is the
\* body sendMessage posts plus the sender's id.
IncomingMessage(fromUserId, handshake, preKeyId, signedPreKeyId, content) ==
    LET bundle ==
            [identityKey |-> LocalIdentity.publicKey,
             signedPreKey |->
                 LocalSignedPreKey(signedPreKeyId).keyPair.publicKey,
             signedPreKeyId |-> signedPreKeyId,
             signedPreKeySignature |->
                 LocalSignedPreKey(signedPreKeyId).signature,
             preKey |-> IF preKeyId = 0 THEN Undefined
                        ELSE LocalPreKeys[preKeyId].keyPair.publicKey,
             preKeyId |-> preKeyId,
             registrationId |-> 0]
        r == X3dhInitiator(RemoteIdentity, bundle, Fill(32, 3))
        session == InitializeSession(r.sharedSecret, bundle.identityKey,
                                     TRUE, <<1, 7, 6>>)
        payload == MessagePayload(<<>>, RatchetEncrypt(session,
                                                       content).encrypted)
    IN [fromUserId |-> fromUserId,
        encryptedContent |-> payload.encryptedContent,
        messageType |-> payload.messageType,
        registrationId |-> payload.registrationId,
        remoteIdentityKey |->
            IF handshake THEN Uint8ArrayToBase64(RemoteIdentity.publicKey)
            ELSE Null,
        ephemeralKey |->
            IF handshake THEN Uint8ArrayToBase64(r.ephemeralKey) ELSE Null,
        preKeyId |-> IF handshake THEN preKeyId ELSE 0,
        signedPreKeyId |-> IF handshake THEN signedPreKeyId ELSE 0]

\* a first message whose content was damaged on the way: AES decryption of
\* it yields bytes that are no UTF-8 text
CorruptedMessage(fromUserId) ==
    [IncomingMessage(fromUserId, TRUE, 0, 1, 1) EXCEPT
        !.encryptedContent =
            Uint8ArrayToBase64(TextEncode(
                [aesPlain |-> 1, aesKey |-> Fill(32, 1),
                 aesIv |-> Fill(16, 1), otherwise |-> "malformed"]))]

\* first messages that reference the current signed pre-key and any or no
\* one-time pre-key, or the next signed pre-key generation, messages
\* without the handshake fields, and damaged messages
IncomingMessages ==
    {IncomingMessage(p, TRUE, k, 1, 1) : p \in Peers, k \in 0..NumPreKeys}
    \cup {IncomingMessage(p, TRUE, 0, 2, 1) : p \in Peers}
    \cup {IncomingMessage(p, FALSE, 0, 1, 1) : p \in Peers}
    \cup {CorruptedMessage(p) : p \in Peers}

\* a new call takes the first free slot
FreeSlot(t) ==
    /\ sTasks[t].op = "idle"
    /\ \A u \in TaskIds : u < t => sTasks[u].op # "idle"

IdleTask == [op |-> "idle"]

SInit ==
    /\ sKeychain = ProvisionedKeychain
    /\ sTasks = [t \in TaskIds |-> IdleTask]
    /\ sCalls = 0
    /\ sLog = {}

\* a call that throws: the catch block logs and rethrows, the call is over
Throw(t, error) ==
    /\ sTasks' = [sTasks EXCEPT ![t] = IdleTask]
    /\ sLog' = sLog \cup {[op |-> "failed", call |-> sTasks[t].call,
                           peer |-> sTasks[t].peer, error |-> error]}

\* sendMessage(toUserId, content) is called
SSendMessage(t, toUserId, content) ==
    /\ FreeSlot(t)
    /\ sCalls < MaxCalls
    /\ sCalls' = sCalls + 1
    /\ sTasks' = [sTasks EXCEPT ![t] =
                     [op |-> "send", pc |-> "getSession", call |-> sCalls + 1,
                      peer |-> toUserId, content |-> content]]
    /\ UNCHANGED <<sKeychain, sLog>>
    /\ UNCHANGED sOthers

\* sendMessage: await getSession(toUserId)
SSendGetSession(t) ==
    /\ sTasks[t].op = "send"
    /\ sTasks[t].pc = "getSession"
    /\ LET session == GetSession(sKeychain.sessions, sTasks[t].peer)
       IN sTasks' = [sTasks EXCEPT ![t] =
                        [op |-> "send",
                         pc |-> IF session = Null THEN "fetchBundle"
                                ELSE "ratchetEncrypt",
                         call |-> sTasks[t].call, peer |-> sTasks[t].peer,
                         content |-> sTasks[t].content,
                         session |-> session,
                         handshake |-> Null]]
    /\ UNCHANGED <<sKeychain, sCalls, sLog>>
    /\ UNCHANGED sOthers

\* establishSession: await this.api.get(`/keys/${toUserId}`); found is FALSE
\* when the request fails
SFetchBundle(t, found, data) ==
    /\ sTasks[t].op = "send"
    /\ sTasks[t].pc = "fetchBundle"
    /\ IF found
       THEN /\ sTasks' = [sTasks EXCEPT ![t] =
                             [op |-> "send", pc |-> "establishSession",
                              call |-> sTasks[t].call,
                              peer |-> sTasks[t].peer,
                              content |-> sTasks[t].content,
                              data |-> data]]
            /\ sLog' = sLog
       ELSE Throw(t, "Request failed")
    /\ UNCHANGED <<sKeychain, sCalls>>
    /\ UNCHANGED sOthers

\* establishSession, from the response to storeSession(toUserId, session)
SEstablishSession(t, ephemeralPrivate, now) ==
    /\ sTasks[t].op = "send"
    /\ sTasks[t].pc = "establishSession"
    /\ LET r == EstablishSession(sTasks[t].data,
                                 GetIdentityKeyPair(sKeychain.identity),
                                 ephemeralPrivate, now)
       IN IF r.ok
          THEN /\ sKeychain' =
                      [sKeychain EXCEPT
                          !.sessions = StoreSession(sTasks[t].peer, r.session)]
               /\ sTasks' = [sTasks EXCEPT ![t] =
                                [op |-> "send", pc |-> "ratchetEncrypt",
                                 call |-> sTasks[t].call,
                                 peer |-> sTasks[t].peer,
                                 content |-> sTasks[t].content,
                                 session |-> r.session,
                                 handshake |->
                                     [ephemeralKey |-> r.ephemeralKey,
                                      bundle |-> r.bundle]]]
               /\ sLog' = sLog \cup
                      {[op |-> "initiated", call |-> sTasks[t].call,
                        peer |-> sTasks[t].peer,
                        preKeyId |-> r.bundle.preKeyId,
                        signedPreKeyId |-> r.bundle.signedPreKeyId]}
          ELSE /\ Throw(t, r.error)
               /\ UNCHANGED sKeychain
    /\ UNCHANGED sCalls
    /\ UNCHANGED sOthers

\* sendMessage: ratchetEncrypt(session, content), then
\* storeSession(toUserId, newSession)
SRatchetEncrypt(t) ==
    /\ sTasks[t].op = "send"
    /\ sTasks[t].pc = "ratchetEncrypt"
    /\ LET session == sTasks[t].session
           r == RatchetEncrypt(session, sTasks[t].content)
       IN IF r.ok
          THEN /\ sKeychain' =
                      [sKeychain EXCEPT
                          !.sessions = StoreSession(sTasks[t].peer,
                                                    r.newSession)]
               /\ sTasks' = [sTasks EXCEPT ![t] =
                                [op |-> "send", pc |-> "post",
                                 call |-> sTasks[t].call,
                                 peer |-> sTasks[t].peer,
                                 content |-> sTasks[t].content,
                                 handshake |-> sTasks[t].handshake,
                                 payload |-> MessagePayload(sTasks[t].peer,
                                                            r.encrypted)]]
               /\ sLog' = sLog \cup
                      {[op |-> "encrypted", call |-> sTasks[t].call,
                        peer |-> sTasks[t].peer,
                        sessionId |-> session.sessionId,
                        messageNumber |-> session.messageNumber,
                        messageKey |->
                            NextMessageKey(session.sendingChainKey),
                        keys |-> NextCipherKeys(session.sendingChainKey)]}
          ELSE /\ Throw(t, r.error)
               /\ UNCHANGED sKeychain
    /\ UNCHANGED sCalls
    /\ UNCHANGED sOthers

\* sendMessage: await this.api.post('/messages', payload); delivered is FALSE
\* when the request fails
SPost(t, delivered) ==
    /\ sTasks[t].op = "send"
    /\ sTasks[t].pc = "post"
    /\ IF delivered
       THEN /\ sTasks' = [sTasks EXCEPT ![t] = IdleTask]
            /\ sLog' = sLog \cup {[op |-> "posted", call |-> sTasks[t].call,
                                   peer |-> sTasks[t].peer,
                                   payload |-> sTasks[t].payload]}
       ELSE Throw(t, "Request failed")
    /\ UNCHANGED <<sKeychain, sCalls>>
    /\ UNCHANGED sOthers

\* socket.on('message', data): decryptIncomingMessage(data) is called
SOnMessage(t, data) ==
    /\ FreeSlot(t)
    /\ sCalls < MaxCalls
    /\ sCalls' = sCalls + 1
    /\ sTasks' = [sTasks EXCEPT ![t] =
                     [op |-> "receive", pc |-> "getSession",
                      call |-> sCalls + 1, peer |-> data.fromUserId,
                      data |-> data]]
    /\ UNCHANGED <<sKeychain, sLog>>
    /\ UNCHANGED sOthers

\* decryptIncomingMessage: await getSession(fromUserId)
SReceiveGetSession(t) ==
    /\ sTasks[t].op = "receive"
    /\ sTasks[t].pc = "getSession"
    /\ LET session == GetSession(sKeychain.sessions, sTasks[t].peer)
       IN sTasks' = [sTasks EXCEPT ![t] =
                        [op |-> "receive",
                         pc |-> IF session = Null
                                THEN "establishSessionAsResponder"
                                ELSE "ratchetDecrypt",
                         call |-> sTasks[t].call, peer |-> sTasks[t].peer,
                         data |-> sTasks[t].data,
                         session |-> session]]
    /\ UNCHANGED <<sKeychain, sCalls, sLog>>
    /\ UNCHANGED sOthers

\* a decryptIncomingMessage that stored the responder session as soon as the
\* handshake had made it, before ratchetDecrypt
SEstablishSessionAsResponderStores(t, now) ==
    /\ sTasks[t].op = "receive"
    /\ sTasks[t].pc = "establishSessionAsResponder"
    /\ LET data == sTasks[t].data
           r == EstablishSessionAsResponder(
                    data, GetIdentityKeyPair(sKeychain.identity),
                    GetSignedPreKey(sKeychain.signedprekey), now)
       IN IF r.ok
          THEN /\ sKeychain' =
                      [sKeychain EXCEPT
                          !.sessions = StoreSession(sTasks[t].peer, r.session)]
               /\ sTasks' = [sTasks EXCEPT ![t] =
                                [op |-> "receive", pc |-> "ratchetDecrypt",
                                 call |-> sTasks[t].call,
                                 peer |-> sTasks[t].peer,
                                 data |-> data,
                                 session |-> r.session]]
               /\ sLog' = sLog \cup
                      {[op |-> "responded", call |-> sTasks[t].call,
                        peer |-> sTasks[t].peer,
                        preKeyId |-> data.preKeyId,
                        signedPreKeyId |-> data.signedPreKeyId,
                        dhLength |-> r.dhLength]}
          ELSE /\ Throw(t, r.error)
               /\ UNCHANGED sKeychain
    /\ UNCHANGED sCalls
    /\ UNCHANGED sOthers

\* decryptIncomingMessage: await this.establishSessionAsResponder(data)
SEstablishSessionAsResponder(t, now) ==
    /\ sTasks[t].op = "receive"
    /\ sTasks[t].pc = "establishSessionAsResponder"
    /\ LET data == sTasks[t].data
           r == EstablishSessionAsResponder(
                    data, GetIdentityKeyPair(sKeychain.identity),
                    GetSignedPreKey(sKeychain.signedprekey), now)
       IN IF r.ok
          THEN /\ sTasks' = [sTasks EXCEPT ![t] =
                                [op |-> "receive", pc |-> "ratchetDecrypt",
                                 call |-> sTasks[t].call,
                                 peer |-> sTasks[t].peer,
                                 data |-> data,
                                 session |-> r.session]]
               /\ sLog' = sLog \cup
                      {[op |-> "responded", call |-> sTasks[t].call,
                        peer |-> sTasks[t].peer,
                        preKeyId |-> data.preKeyId,
                        signedPreKeyId |-> data.signedPreKeyId,
                        dhLength |-> r.dhLength]}
          ELSE Throw(t, r.error)
    /\ UNCHANGED <<sKeychain, sCalls>>
    /\ UNCHANGED sOthers

\* decryptIncomingMessage: ratchetDecrypt(session, encrypted), then
\* storeSession(fromUserId, newSession); the handler then notifies the
\* listeners and sends the receipt
SRatchetDecrypt(t) ==
    /\ sTasks[t].op = "receive"
    /\ sTasks[t].pc = "ratchetDecrypt"
    /\ LET session == sTasks[t].session
           r == RatchetDecrypt(session, IncomingEncrypted(sTasks[t].data))
       IN IF r.ok
          THEN /\ sKeychain' =
                      [sKeychain EXCEPT
                          !.sessions = StoreSession(sTasks[t].peer,
                                                    r.newSession)]
               /\ sTasks' = [sTasks EXCEPT ![t] = IdleTask]
               /\ sLog' = sLog \cup
                      {[op |-> "decrypted", call |-> sTasks[t].call,
                        peer |-> sTasks[t].peer,
                        sessionId |-> session.sessionId,
                        messageNumber |-> session.messageNumber,
                        plaintext |-> r.plaintext]}
          ELSE /\ Throw(t, r.error)
               /\ UNCHANGED sKeychain
    /\ UNCHANGED sCalls
    /\ UNCHANGED sOthers

\* clearAllKeys: every service of the keychain is reset
ClearAllKeys ==
    [identity |-> Null, signedprekey |-> Null, prekeys |-> Null,
     sessions |-> Null]

\* the session record a reset of the sessions service removes, if any
Discarded(keychain) ==
    IF keychain.sessions = Null THEN {}
    ELSE {[op |-> "discarded", call |-> 0,
           peer |-> keychain.sessions.username[2],
           sessionId |-> keychain.sessions.password.sessionId]}

\* logout(): POST /auth/logout (failure ignored), tokens removed, then
\* clearAllKeys()
SLogout ==
    /\ sKeychain' = ClearAllKeys
    /\ sLog' = sLog \cup Discarded(sKeychain)
    /\ UNCHANGED <<sTasks, sCalls>>
    /\ UNCHANGED sOthers

\* response interceptor: a 401 whose token refresh fails calls logout()
SRefreshFailure ==
    /\ sKeychain' = ClearAllKeys
    /\ sLog' = sLog \cup Discarded(sKeychain)
    /\ UNCHANGED <<sTasks, sCalls>>
    /\ UNCHANGED sOthers

\* deleteSession(userId): resets the sessions service
SDeleteSession(userId) ==
    /\ sKeychain' = [sKeychain EXCEPT !.sessions = Null]
    /\ sLog' = sLog \cup Discarded(sKeychain)
    /\ UNCHANGED <<sTasks, sCalls>>
    /\ UNCHANGED sOthers

SNext ==
    \/ SLogout
    \/ SRefreshFailure
    \/ \E userId \in Peers : SDeleteSession(userId)
    \/ \E t \in TaskIds :
        \/ \E toUserId \in Peers, content \in Plaintexts :
               SSendMessage(t, toUserId, content)
        \/ SSendGetSession(t)
        \/ \E data \in BundleResponses : SFetchBundle(t, TRUE, data)
        \/ SFetchBundle(t, FALSE, Null)
        \/ \E ephemeralPrivate \in GenerateRandomBytes, now \in Timestamps :
               SEstablishSession(t, ephemeralPrivate, now)
        \/ SRatchetEncrypt(t)
        \/ \E delivered \in BOOLEAN : SPost(t, delivered)
        \/ \E data \in IncomingMessages : SOnMessage(t, data)
        \/ SReceiveGetSession(t)
        \/ \E now \in Timestamps : SEstablishSessionAsResponder(t, now)
        \/ SRatchetDecrypt(t)

\* ------------------------------------------------ the local pre-key pool
\* storePreKeys, getPreKey and deletePreKey called on the keychain of one
\* device.
PoolTasks == 1..NumTasks
PreKeyIds == 1..(NumPreKeys + 1)

\* the random private keys of one provisioning
PoolSeeds(k) == [i \in 1..NumPreKeys |-> Fill(32, 1 + ((k + i) % NumScalars))]

PInit ==
    /\ pPreKeys = Null
    /\ pTasks = [t \in PoolTasks |-> [pc |-> "idle"]]
    /\ pLast = Null

\* provisionDevice: storePreKeys(await generatePreKeys(1, n))
PStorePreKeys(seeds) ==
    /\ pPreKeys' = StorePreKeys(GeneratePreKeys(1, Len(seeds), seeds))
    /\ UNCHANGED <<pTasks, pLast>> /\ UNCHANGED pOthers

\* deletePreKey(keyId) up to its await of getGenericPassword: returns at
\* once if there is no entry
PDeleteRead(t, keyId) ==
    /\ pTasks[t].pc = "idle"
    /\ IF pPreKeys = Null
       THEN /\ pLast' = [keyId |-> keyId, before |-> Null, after |-> Null,
                         sequential |-> TRUE]
            /\ UNCHANGED pTasks
       ELSE /\ pTasks' = [pTasks EXCEPT ![t] =
                             [pc |-> "write", keyId |-> keyId,
                              credentials |-> pPreKeys]]
            /\ UNCHANGED pLast
    /\ UNCHANGED pPreKeys /\ UNCHANGED pOthers

\* deletePreKey(keyId) from the filter to the end of setGenericPassword;
\* sequential tells that nothing wrote the entry since this call read it
PDeleteWrite(t) ==
    /\ pTasks[t].pc = "write"
    /\ pPreKeys' = DeletePreKey(pTasks[t].credentials, pTasks[t].keyId)
    /\ pLast' = [keyId |-> pTasks[t].keyId, before |-> pPreKeys,
                 after |-> pPreKeys',
                 sequential |-> pTasks[t].credentials = pPreKeys]
    /\ pTasks' = [pTasks EXCEPT ![t] = [pc |-> "idle"]]
    /\ UNCHANGED pOthers

\* clearAllKeys: the prekeys service is reset
PClearAllKeys ==
    /\ pPreKeys' = ClearAllKeys.prekeys
    /\ UNCHANGED <<pTasks, pLast>> /\ UNCHANGED pOthers

PNext ==
    \/ \E k \in Scalars : PStorePreKeys(PoolSeeds(k))
    \/ \E t \in PoolTasks, keyId \in PreKeyIds : PDeleteRead(t, keyId)
    \/ \E t \in PoolTasks : PDeleteWrite(t)
    \/ PClearAllKeys

\* ------------------------------------------------------- one hkdf call
\* hkdf run statement by statement: the extract step, then the while loop
\* of the expand step, one iteration per step.
HkdfLengths == {0, 1, 31, 32, 33, 64, 80}
HkdfInputs == GenerateRandomBytes \cup {<<>>}
HkdfSalts == {Fill(32, 0), Fill(32, 1)}
HkdfInfos == {ROOT_KEY_SEED, MESSAGE_KEY_SEED, <<>>}

HInit == hCall = [pc |-> "idle"]

\* output.set(bytes, offset)
SetAt(output, bytes, offset) ==
    Cat(Cat(TakeBytes(output, offset), bytes),
        DropBytes(output, offset + ByteLen(bytes)))

\* a copy of the whole block whatever remains
ToCopyWholeBlock(tLength, remaining) == tLength

\* Math.min(t.length, remaining)
ToCopy(tLength, remaining) == Min(tLength, remaining)

\* hkdf is called: prk, output, t, offset and counter are initialised
HStart(inputKeyMaterial, salt, info, length) ==
    /\ hCall.pc \in {"idle", "done"}
    /\ hCall' = [pc |-> "loop",
                 inputKeyMaterial |-> inputKeyMaterial, salt |-> salt,
                 info |-> info, length |-> length,
                 prk |-> HmacSha256(inputKeyMaterial, salt),
                 output |-> Fill(length, 0),
                 t |-> <<>>, offset |-> 0, counter |-> 1]
    /\ UNCHANGED hOthers

\* one iteration of while (offset < length)
HLoop ==
    /\ hCall.pc = "loop"
    /\ hCall.offset < hCall.length
    /\ LET data == Cat(Cat(hCall.t, hCall.info),
                       Fill(1, hCall.counter % 256))
           t == HmacSha256(data, hCall.prk)
           remaining == hCall.length - hCall.offset
           toCopy == ToCopy(ByteLen(t), remaining)
       IN hCall' = [hCall EXCEPT
                       !.t = t,
                       !.output = SetAt(@, Slice(t, 0, toCopy), hCall.offset),
                       !.offset = @ + toCopy,
                       !.counter = @ + 1]
    /\ UNCHANGED hOthers

\* the loop condition fails: return output
HReturn ==
    /\ hCall.pc = "loop"
    /\ ~ (hCall.offset < hCall.length)
    /\ hCall' = [hCall EXCEPT !.pc = "done"]
    /\ UNCHANGED hOthers

HNext ==
    \/ \E inputKeyMaterial \in HkdfInputs, salt \in HkdfSalts,
          info \in HkdfInfos, length \in HkdfLengths :
          HStart(inputKeyMaterial, salt, info, length)
    \/ HLoop
    \/ HReturn

\* ---------------------------------------------------------------------
\* Session objects over shared buffers.  A SessionState holds references to
\* Uint8Array objects; an object spread copies the references, and fill(0)
\* writes the buffer every holder of the reference sees.
\* ---------------------------------------------------------------------

MaxSessions == 3

\* the SessionState a session object denotes in a heap; 0 is an absent
\* (undefined) chain key
Deref(heap, object) ==
    [sessionId |-> object.sessionId,
     remoteIdentityKey |-> heap[object.remoteIdentityKey],
     rootKey |-> heap[object.rootKey],
     chainKey |-> heap[object.chainKey],
     sendingChainKey |->
         IF object.sendingChainKey = 0 THEN Undefined
         ELSE heap[object.sendingChainKey],
     receivingChainKey |->
         IF object.receivingChainKey = 0 THEN Undefined
         ELSE heap[object.receivingChainKey],
     messageNumber |-> object.messageNumber,
     previousCounter |-> object.previousCounter]

BInit ==
    /\ bHeap = <<>>
    /\ bSessions = <<>>
    /\ bLast = Null

\* initializeSession: rootKey and chainKey are new buffers, remoteIdentityKey
\* is the caller's, and the chain key in use is the chainKey buffer itself
BInitializeSession(sharedSecret, remoteIdentityKey, isInitiator, now) ==
    /\ Len(bSessions) < MaxSessions
    /\ LET s == InitializeSession(sharedSecret, remoteIdentityKey,
                                  isInitiator, now)
           n == Len(bHeap)
       IN /\ bHeap' = bHeap \o <<s.remoteIdentityKey, s.rootKey, s.chainKey>>
          /\ bSessions' = Append(bSessions,
                 [sessionId |-> s.sessionId,
                  remoteIdentityKey |-> n + 1,
                  rootKey |-> n + 2,
                  chainKey |-> n + 3,
                  sendingChainKey |-> IF isInitiator THEN n + 3 ELSE 0,
                  receivingChainKey |-> IF isInitiator THEN 0 ELSE n + 3,
                  messageNumber |-> 0,
                  previousCounter |-> 0,
                  from |-> 0])
          /\ bLast' = [fn |-> "initializeSession",
                       session |-> Len(bSessions) + 1, ok |-> TRUE]
    /\ UNCHANGED bOthers

\* ratchetEncrypt(session, plaintext): newSession is {...session} with a new
\* buffer for sendingChainKey; from names the object it was spread from
BRatchetEncrypt(i, plaintext) ==
    /\ i \in DOMAIN bSessions
    /\ Len(bSessions) < MaxSessions
    /\ LET r == RatchetEncrypt(Deref(bHeap, bSessions[i]), plaintext)
       IN /\ IF r.ok
             THEN /\ bHeap' = Append(bHeap, r.newSession.sendingChainKey)
                  /\ bSessions' = Append(bSessions,
                         [bSessions[i] EXCEPT
                             !.sendingChainKey = Len(bHeap) + 1,
                             !.messageNumber = r.newSession.messageNumber,
                             !.from = i])
             ELSE UNCHANGED <<bHeap, bSessions>>
          /\ bLast' = [fn |-> "ratchetEncrypt", session |-> i, ok |-> r.ok]
    /\ UNCHANGED bOthers

\* ratchetDecrypt(session, encrypted): newSession is {...session} with a new
\* buffer for receivingChainKey
BRatchetDecrypt(i, encrypted) ==
    /\ i \in DOMAIN bSessions
    /\ Len(bSessions) < MaxSessions
    /\ LET r == RatchetDecrypt(Deref(bHeap, bSessions[i]), encrypted)
       IN /\ IF r.ok
             THEN /\ bHeap' = Append(bHeap, r.newSession.receivingChainKey)
                  /\ bSessions' = Append(bSessions,
                         [bSessions[i] EXCEPT
                             !.receivingChainKey = Len(bHeap) + 1,
                             !.previousCounter =
                                 r.newSession.previousCounter,
                             !.messageNumber = r.newSession.messageNumber,
                             !.from = i])
             ELSE UNCHANGED <<bHeap, bSessions>>
          /\ bLast' = [fn |-> "ratchetDecrypt", session |-> i, ok |-> r.ok]
    /\ UNCHANGED bOthers

\* the buffers cleanupSession(session) fills with zeros
CleanedBuffers(object) ==
    {object.rootKey, object.chainKey, object.remoteIdentityKey}
    \cup ({object.sendingChainKey, object.receivingChainKey} \ {0})

\* cleanupSession(session)
BCleanupSession(i) ==
    /\ i \in DOMAIN bSessions
    /\ bHeap' = [b \in DOMAIN bHeap |->
                    IF b \in CleanedBuffers(bSessions[i])
                    THEN ZeroFill(bHeap[b]) ELSE bHeap[b]]
    /\ bLast' = [fn |-> "cleanupSession", session |-> i, ok |-> TRUE]
    /\ UNCHANGED bSessions
    /\ UNCHANGED bOthers

\* the first message of a fresh initiator session
FirstMessages ==
    {RatchetEncrypt(InitializeSession(s, Ed25519GetPublicKey(s), TRUE,
                                      <<1, 7, 6>>), p).encrypted :
        s \in GenerateRandomBytes, p \in Plaintexts}

BNext ==
    \/ \E s \in GenerateRandomBytes,
          rk \in {Ed25519GetPublicKey(k) : k \in GenerateRandomBytes},
          isInitiator \in BOOLEAN, now \in Timestamps :
          BInitializeSession(s, rk, isInitiator, now)
    \/ \E i \in 1..MaxSessions :
          \/ \E plaintext \in Plaintexts : BRatchetEncrypt(i, plaintext)
          \/ \E encrypted \in FirstMessages : BRatchetDecrypt(i, encrypted)
          \/ BCleanupSession(i)

Init == XInit /\ RInit /\ KInit /\ SInit /\ PInit /\ HInit /\ BInit

SpecBuffers == Init /\ [][BNext]_vars

\* a call that has started keeps running: the loop and the return are
\* taken when they can be
SpecHkdf == Init /\ [][HNext]_vars /\ WF_vars(HLoop) /\ WF_vars(HReturn)

SpecPreKeys == Init /\ [][PNext]_vars

SpecX3DH == Init /\ [][XNext]_vars

SpecRatchet == Init /\ [][RNext]_vars

SpecKeys == Init /\ [][KNext]_vars

Spec == Init /\ [][SNext]_vars

\* the bundle of the current run verifies against its identity key
XBundleVerifies ==
    /\ IsBase64(xData.signedPreKey.signature)
    /\ LET bundle == ParseBundle(xData)
       IN Ed25519Verify(bundle.signedPreKeySignature, bundle.signedPreKey,
                        bundle.identityKey)

C3_MessageKeysNeverReused ==
    \A i \in 1..Len(rSent), j \in 1..Len(rSent) :
        i < j =>
            /\ rSent[i].messageKey # rSent[j].messageKey
            /\ rSent[i].keys # rSent[j].keys
            /\ rSent[i].plaintext = rSent[j].plaintext =>
                   rSent[i].encrypted.ciphertext # rSent[j].encrypted.ciphertext

\* C6: when the responder has performed as many ratchetDecrypt steps as the
\* initiator had performed ratchetEncrypt steps before producing a message,
\* ratchetDecrypt of that message returns exactly its plaintext
C6_RoundTrip ==
    (rLast # Null /\ rLast.senderSteps = rLast.receiverSteps) =>
        rLast.plaintext = rSent[rLast.index].plaintext

C6_Witness ==
    /\ rLast # Null
    /\ rLast.senderSteps = 1
    /\ rLast.receiverSteps = 1
    /\ rLast.plaintext = rSent[rLast.index].plaintext
    /\ rLast.plaintext \in Plaintexts

\* C7: in every interleaving of bundle fetches for one user, no one-time
\* pre-key (keyId) is returned in more than one bundle
C7_PreKeyIssuedOnce ==
    \A r1 \in ReqIds, r2 \in ReqIds :
        ( /\ r1 # r2
          /\ kReqs[r1].pc = "done" /\ kReqs[r1].status = 200
          /\ kReqs[r2].pc = "done" /\ kReqs[r2].status = 200
          /\ kReqs[r1].userId = kReqs[r2].userId
          /\ kReqs[r1].body.preKey # Null )
        => kReqs[r1].body.preKey # kReqs[r2].body.preKey


\* ------------------------------------------------- the messaging service
\* sendMessage has read the session (getSession returned) and has not yet
\* written the ratcheted one (storeSession after ratchetEncrypt)
InSendSection(t) ==
    /\ sTasks[t].op = "send"
    /\ sTasks[t].pc \in {"fetchBundle", "establishSession", "ratchetEncrypt"}

Encrypted == {e \in sLog : e.op = "encrypted"}
Decrypted == {e \in sLog : e.op = "decrypted"}
Responded == {e \in sLog : e.op = "responded"}
Initiated == {e \in sLog : e.op = "initiated"}
Posted == {e \in sLog : e.op = "posted"}

AllIdle == \A t \in TaskIds : sTasks[t].op = "idle"

\* the session object in the keychain entry written for userId
StoredSession(userId) ==
    IF sKeychain.sessions # Null
       /\ sKeychain.sessions.username = <<"session_", userId>>
    THEN sKeychain.sessions.password
    ELSE Null

\* C4: two sendMessage calls to the same peer are never both between their
\* getSession and their storeSession, and no two messages to one peer are
\* encrypted under the same message key.
C4_SendsDoNotOverlap ==
    /\ \A t, u \in TaskIds :
           (t # u /\ InSendSection(t) /\ InSendSection(u))
               => sTasks[t].peer # sTasks[u].peer
    /\ \A e, f \in Encrypted :
           (e.call # f.call /\ e.peer = f.peer)
               => e.messageKey # f.messageKey

\* C5: when a sendMessage and an incoming-message decryption for one peer
\* have both completed and no call is running, the stored session of that
\* peer has advanced once for every ratchet step the calls performed.
C5_StoredSessionReflectsSteps ==
    \A p \in Peers :
        (/\ AllIdle
         /\ \A e \in sLog : e.peer = p
         /\ \E e \in Encrypted : TRUE
         /\ \E e \in Decrypted : TRUE)
            => /\ StoredSession(p) # Null
               /\ StoredSession(p).messageNumber
                      = Cardinality(Encrypted) + Cardinality(Decrypted)

\* C8: after a responder handshake whose first message referenced one-time
\* pre-key k, k is no longer in local storage, and no second handshake
\* referencing k creates a session.
C8_PreKeyConsumedOnce ==
    /\ \A e \in Responded :
           e.preKeyId # 0 => GetPreKey(sKeychain.prekeys, e.preKeyId) = Null
    /\ \A e, f \in Responded :
           (e.preKeyId # 0 /\ e.preKeyId = f.preKeyId) => e.call = f.call

\* C9: a responder session is created only from a first message whose
\* signedPreKeyId is the id of a signed pre-key held locally; a message
\* referencing any other id is rejected.
C9_SignedPreKeySelectedById ==
    \A e \in Responded :
        /\ GetSignedPreKey(sKeychain.signedprekey) # Null
        /\ e.signedPreKeyId = GetSignedPreKey(sKeychain.signedprekey).keyId

\* C10: the responder hashes four DH outputs (128 bytes) exactly when the
\* first message carried a preKeyId, and three (96 bytes) otherwise.
C10_DH4IffPreKeyId ==
    \A e \in Responded : (e.dhLength = 4 * 32) <=> (e.preKeyId # 0)

\* C11: the message the sendMessage call that ran x3dhInitiator is about to
\* post carries the ephemeral public key x3dhInitiator returned (as baseKey,
\* or under the name the responder reads, ephemeralKey), the initiator's
\* identity public key and the signedPreKeyId of the bundle.
C11_FirstMessageCarriesBaseKey ==
    \A t \in TaskIds :
        (/\ sTasks[t].op = "send"
         /\ sTasks[t].pc = "post"
         /\ sTasks[t].handshake # Null)
            => LET payload == sTasks[t].payload
                   handshake == sTasks[t].handshake
               IN /\ \E f \in {"baseKey", "ephemeralKey"} :
                         /\ f \in DOMAIN payload
                         /\ payload[f]
                                = Uint8ArrayToBase64(handshake.ephemeralKey)
                  /\ \E f \in {"identityKey", "remoteIdentityKey"} :
                         /\ f \in DOMAIN payload
                         /\ payload[f]
                                = Uint8ArrayToBase64(LocalIdentity.publicKey)
                  /\ "signedPreKeyId" \in DOMAIN payload
                  /\ payload.signedPreKeyId
                         = handshake.bundle.signedPreKeyId


\* C12: when sendMessage looks up the session of a peer for whom a session
\* is stored, it goes on to ratchetEncrypt with it: it fetches no bundle and
\* runs no handshake.
C12_StoredSessionIsReused ==
    [][\A t \in TaskIds :
           (/\ sTasks[t].op = "send"
            /\ sTasks[t].pc = "getSession"
            /\ StoredSession(sTasks[t].peer) # Null
            /\ sTasks'[t] # sTasks[t])
               => /\ sTasks'[t].pc = "ratchetEncrypt"
                  /\ sTasks'[t].session.sessionId
                         = StoredSession(sTasks[t].peer).sessionId]_vars


\* C13: ratchetDecrypt of a ciphertext that was not made with the next
\* receiving message key fails, and the receiving session the caller holds
\* afterwards is the one from before the call (chain key not advanced).
C13_ForgedMessageLeavesChain ==
    (rLast # Null /\ rLast.index = 0) =>
        /\ rLast.ok = FALSE
        /\ rLast.after = rLast.before


\* C14: ratchetEncrypt on a session without sendingChainKey and
\* ratchetDecrypt on a session without receivingChainKey throw: they return
\* no envelope, plaintext or new session, and the session is as before.
C14_MissingChainFails ==
    (rLast # Null /\ rLast.index = -1) =>
        /\ rLast.result.ok = FALSE
        /\ DOMAIN rLast.result = {"ok", "error"}
        /\ rLast.result.error =
               IF rLast.fn = "ratchetEncrypt"
               THEN "No sending chain key available"
               ELSE "No receiving chain key available"
        /\ rLast.after = rLast.before

C14_Witness ==
    /\ rLast # Null
    /\ rLast.index = -1
    /\ rLast.fn = "ratchetEncrypt"
    /\ rLast.result.ok = FALSE
    /\ rLast.before.sendingChainKey = Undefined
    /\ rLast.before.receivingChainKey # Undefined


DiscardedSessions == {e \in sLog : e.op = "discarded"}
CleanedUp == {e \in sLog : e.op = "cleanupSession"}

\* C15: for every session record discarded by logout or by a session reset,
\* cleanupSession was applied to that session.
C15_CleanupBeforeDiscard ==
    \A e \in DiscardedSessions :
        \E c \in CleanedUp : c.sessionId = e.sessionId /\ c.peer = e.peer

\* C16: the identity key pair stored at provisioning is retrievable and
\* unchanged whatever logouts, session deletions and token-refresh failures
\* have happened.
C16_IdentityKeySurvives ==
    GetIdentityKeyPair(sKeychain.identity) = LocalIdentity


\* C17: a requester that was served a bundle without a one-time pre-key
\* (the directory had none left) establishes its session all the same, from
\* the three DH outputs DH1, DH2, DH3 (96 bytes).
C17_ExhaustionIsNotAnError ==
    \A r \in ReqIds :
        (kReqs[r].pc = "established" /\ kReqs[r].body.preKey = Null)
            => /\ kReqs[r].result.ok
               /\ kReqs[r].result.dhLength = 96


C19_ChainKeysPairwiseDistinct ==
    \A i \in 1..Len(rSent) :
        /\ rSent[i].newChainKey # rSent[1].chainKey
        /\ rSent[i].newChainKey # rSent[i].chainKey
        /\ \A j \in 1..Len(rSent) :
               i < j => rSent[i].newChainKey # rSent[j].newChainKey


\* C20: the two sessions initializeSession returned for one shared secret
\* (initiator and responder, each with its own remote identity key) have
\* messageNumber 0 and previousCounter 0; the initiator's has sendingChainKey
\* = chainKey and no receiving chain, the responder's has receivingChainKey =
\* chainKey and no sending chain; rootKey and chainKey are the same in both.
C20_FreshSession ==
    (rIni # Null /\ rSent = <<>> /\ rLast = Null) =>
        /\ rIni.messageNumber = 0 /\ rIni.previousCounter = 0
        /\ rRes.messageNumber = 0 /\ rRes.previousCounter = 0
        /\ rIni.sendingChainKey = rIni.chainKey
        /\ rIni.receivingChainKey = Undefined
        /\ rRes.receivingChainKey = rRes.chainKey
        /\ rRes.sendingChainKey = Undefined
        /\ ByteLen(rIni.chainKey) = 32 /\ ByteLen(rIni.rootKey) = 32
        /\ rIni.rootKey = rRes.rootKey
        /\ rIni.chainKey = rRes.chainKey

\* C20: a fresh pair whose two sides were given different identity keys
C20_Witness ==
    /\ rIni # Null /\ rSent = <<>> /\ rLast = Null
    /\ rIni.remoteIdentityKey # rRes.remoteIdentityKey
    /\ rIni.sendingChainKey # Undefined
    /\ rRes.receivingChainKey # Undefined


\* C21: every ratchetEncrypt on the initiator's session returns a session
\* whose messageNumber is the input's plus one and whose sendingChainKey is
\* the ratcheted chain key, with sessionId, remoteIdentityKey, rootKey,
\* chainKey, receivingChainKey and previousCounter as in the input.
C21_EncryptFrame ==
    [][Len(rSent') = Len(rSent) + 1 =>
          /\ rIni'.messageNumber = rIni.messageNumber + 1
          /\ Len(rSent) = 0 => rIni'.messageNumber = 1
          /\ rIni'.sendingChainKey =
                 RatchetChainKey(rIni.sendingChainKey).newChainKey
          /\ rIni'.sessionId = rIni.sessionId
          /\ rIni'.remoteIdentityKey = rIni.remoteIdentityKey
          /\ rIni'.rootKey = rIni.rootKey
          /\ rIni'.chainKey = rIni.chainKey
          /\ rIni'.receivingChainKey = rIni.receivingChainKey
          /\ rIni'.previousCounter = rIni.previousCounter
          /\ DOMAIN rIni' = DOMAIN rIni]_vars

\* C21: two encrypts were made on a session
C21_Witness ==
    /\ Len(rSent) = 2
    /\ rIni # Null
    /\ rIni.messageNumber = 2
    /\ rSent[2].step = 1


\* every byte of the array is zero
AllZero(a) == \A i \in DOMAIN a : a[i].b = 0

\* C22: after cleanupSession(session), rootKey, chainKey, remoteIdentityKey
\* and whichever of sendingChainKey and receivingChainKey is set hold only
\* zero bytes (and keep their lengths).
C22_CleanupZeroes ==
    (rLast # Null /\ rLast.index = -2) =>
        LET s == rLast.after
            b == rLast.before
        IN /\ AllZero(s.rootKey) /\ ByteLen(s.rootKey) = ByteLen(b.rootKey)
           /\ AllZero(s.chainKey) /\ ByteLen(s.chainKey) = ByteLen(b.chainKey)
           /\ AllZero(s.remoteIdentityKey)
           /\ ByteLen(s.remoteIdentityKey) = ByteLen(b.remoteIdentityKey)
           /\ IF b.sendingChainKey = Undefined
              THEN s.sendingChainKey = Undefined
              ELSE /\ AllZero(s.sendingChainKey)
                   /\ ByteLen(s.sendingChainKey) = 32
           /\ IF b.receivingChainKey = Undefined
              THEN s.receivingChainKey = Undefined
              ELSE /\ AllZero(s.receivingChainKey)
                   /\ ByteLen(s.receivingChainKey) = 32

\* C22: cleanupSession ran on a session that had encrypted, whose remote
\* identity key was not zero
C22_Witness ==
    /\ rLast # Null /\ rLast.index = -2
    /\ rLast.before.messageNumber > 0
    /\ rLast.before.sendingChainKey # Undefined
    /\ ~ AllZero(rLast.before.remoteIdentityKey)
    /\ AllZero(rLast.after.remoteIdentityKey)


\* a byte array with its last byte changed
LastByteChanged(a) ==
    Cat(Slice(a, 0, ByteLen(a) - 1), Fill(1, (a[Len(a)].b + 1) % 256))
FirstByteChanged(a) ==
    Cat(Fill(1, (a[1].b + 1) % 256), Slice(a, 1, ByteLen(a)))

\* signatures, signed keys and identity keys other than the generated ones
SomeSignatures ==
    {Ed25519Sign(X25519GetPublicKey(p), s) :
        p \in GenerateRandomBytes, s \in GenerateRandomBytes}
    \cup {Fill(64, 0), Fill(63, 200), <<>>}
SomeSignedKeys ==
    {X25519GetPublicKey(p) : p \in GenerateRandomBytes} \cup {Fill(32, 0)}
SomeIdentityKeys ==
    {Ed25519GetPublicKey(p) : p \in GenerateRandomBytes}
    \cup {Fill(32, 0), Fill(31, 33)}

\* C23: the signed pre-key generateSignedPreKey made with the responder's
\* identity verifies against that identity's public key, and does not verify
\* with any other signature, any other signed key or any other identity key
\* (other generated values, malformed ones, and the genuine value with one
\* byte changed).
C23_SignedPreKeyVerifies ==
    xPhase # "none" =>
        LET publicKey == xBob.signedPreKey.keyPair.publicKey
            signature == xBob.signedPreKey.signature
            identityKey == xBob.identity.publicKey
        IN /\ VerifySignedPreKey(publicKey, signature, identityKey)
           /\ \A s \in SomeSignatures
                    \cup {LastByteChanged(signature),
                          FirstByteChanged(signature)} :
                  s # signature
                      => ~ VerifySignedPreKey(publicKey, s, identityKey)
           /\ \A k \in SomeSignedKeys
                    \cup {LastByteChanged(publicKey),
                          FirstByteChanged(publicKey)} :
                  k # publicKey
                      => ~ VerifySignedPreKey(k, signature, identityKey)
           /\ \A i \in SomeIdentityKeys
                    \cup {LastByteChanged(identityKey),
                          FirstByteChanged(identityKey)} :
                  i # identityKey
                      => ~ VerifySignedPreKey(publicKey, signature, i)

\* C23: keys were generated and establishSession verified the genuine bundle
C23_Witness ==
    /\ xPhase = "established"
    /\ xEst.ok
    /\ IsBase64(xData.signedPreKey.signature)
    /\ Base64ToUint8Array(xData.signedPreKey.signature)
           = xBob.signedPreKey.signature


\* C24: the batch generatePreKeys(startId, count) returned has exactly count
\* pre-keys, the i-th (from 0) with keyId startId + i, and no keyId twice.
C24_SequentialPreKeyIds ==
    xPhase # "none" =>
        LET batch == xBob.batch
            preKeys == batch.preKeys
        IN /\ Len(preKeys) = batch.count
           /\ \A i \in 1..Len(preKeys) :
                  preKeys[i].keyId = batch.startId + (i - 1)
           /\ \A i \in 1..Len(preKeys), j \in 1..Len(preKeys) :
                  preKeys[i].keyId = preKeys[j].keyId => i = j

\* C24: a batch of more than one key that does not start at id 1
C24_Witness ==
    /\ xPhase # "none"
    /\ xBob.batch.count >= 2
    /\ xBob.batch.startId > 1
    /\ Len(xBob.batch.preKeys) >= 2


\* the blocks T(1), ..., T(n) of the expand step, concatenated
RECURSIVE HkdfBlocks(_, _, _, _, _)
HkdfBlocks(prk, info, t, counter, n) ==
    IF n = 0 THEN <<>>
    ELSE LET t2 == HmacSha256(Cat(Cat(t, info), Fill(1, counter % 256)), prk)
         IN Cat(t2, HkdfBlocks(prk, info, t2, counter + 1, n - 1))

\* C25: every hkdf call returns; what it returns has exactly length bytes,
\* which are the first length bytes of T(1) T(2) ... (32-byte HMAC blocks),
\* after ceil(length / 32) iterations.
C25_HkdfReturnsLengthBytes ==
    /\ [](hCall.pc = "done" =>
            LET n == (hCall.length + 31) \div 32
            IN /\ ByteLen(hCall.output) = hCall.length
               /\ hCall.counter = n + 1
               /\ hCall.output =
                      TakeBytes(HkdfBlocks(hCall.prk, hCall.info, <<>>, 1, n),
                                hCall.length)
               /\ hCall.output = Hkdf(hCall.inputKeyMaterial, hCall.salt,
                                      hCall.info, hCall.length))
    /\ (hCall.pc = "loop" ~> hCall.pc = "done")

\* C25: a call for 80 bytes returned after three blocks
C25_Witness ==
    /\ hCall.pc = "done"
    /\ hCall.length = 80
    /\ hCall.counter = 4
    /\ ByteLen(hCall.output) = 80


\* C26: no sendMessage has called ratchetEncrypt on a session without a
\* sending chain and no incoming message has been given to ratchetDecrypt
\* on a session without a receiving chain (either call throws its
\* "No ... chain key available" error).
C26_ChainAlwaysAvailable ==
    /\ \A e \in sLog :
           e.op = "failed" =>
               e.error \notin {"No sending chain key available",
                               "No receiving chain key available"}
    /\ \A t \in TaskIds :
           /\ (sTasks[t].op = "send" /\ sTasks[t].pc = "ratchetEncrypt")
                  => sTasks[t].session.sendingChainKey # Undefined
           /\ (sTasks[t].op = "receive" /\ sTasks[t].pc = "ratchetDecrypt")
                  => sTasks[t].session.receivingChainKey # Undefined


\* the chain-key fields of a session state
ChainKeyFields == {"chainKey", "sendingChainKey", "receivingChainKey"}

\* C27: the initiator's session holds, in none of its chain-key fields, a
\* chain key from which the message key of a message already encrypted was
\* derived.
C27_NoEarlierChainKeyKept ==
    rIni # Null =>
        \A i \in 1..Len(rSent), f \in ChainKeyFields :
            rIni[f] # rSent[i].chainKey


\* C28: a message is decrypted to its plaintext only by a receiving chain
\* that has made as many steps as the sending chain had made when the
\* message was encrypted, whether ratchetDecrypt or handleSkippedMessage is
\* called.
C28_OnlyInOrderDecrypts ==
    (rLast # Null /\ rLast.index >= 1
        /\ rLast.senderSteps # rLast.receiverSteps)
        => rLast.plaintext # rSent[rLast.index].plaintext


\* C29: when ratchetEncrypt has returned, the message key, the cipher key,
\* the MAC key, the iv and the HKDF output they were cut from have all been
\* overwritten with zeros.
C29_KeyMaterialZeroed ==
    \A i \in 1..Len(rSent) :
        \A name \in DOMAIN rSent[i].buffers :
            /\ rSent[i].buffers[name].filled
            /\ AllZero(rSent[i].buffers[name].bytes)


\* a ratchetEncrypt on the initiator's session returned in this step
EncryptStep == Len(rSent') = Len(rSent) + 1

\* a ratchetDecrypt on the responder's session returned in this step
DecryptStep ==
    /\ rLast' # Null /\ rLast' # rLast
    /\ rLast'.index >= 0
    /\ rLast'.index = 0 => rLast'.ok

\* C30: a session starts with messageNumber 0 and previousCounter 0; each
\* ratchetEncrypt adds one to messageNumber and leaves previousCounter; each
\* ratchetDecrypt adds one to messageNumber and sets previousCounter to the
\* messageNumber it found; nothing else changes either counter.  Hence the
\* initiator's messageNumber is the number of its encrypts with
\* previousCounter 0, and the responder's previousCounter is its
\* messageNumber minus one once it has decrypted.
C30_CountersFollowSteps ==
    /\ [][/\ (rIni = Null /\ rIni' # Null) =>
                /\ rIni'.messageNumber = 0 /\ rIni'.previousCounter = 0
                /\ rRes'.messageNumber = 0 /\ rRes'.previousCounter = 0
          /\ (rIni # Null /\ rIni' # Null) =>
                /\ IF EncryptStep
                   THEN /\ rIni'.messageNumber = rIni.messageNumber + 1
                        /\ rIni'.previousCounter = rIni.previousCounter
                   ELSE /\ rIni'.messageNumber = rIni.messageNumber
                        /\ rIni'.previousCounter = rIni.previousCounter
                /\ IF DecryptStep
                   THEN /\ rRes'.messageNumber = rRes.messageNumber + 1
                        /\ rRes'.previousCounter = rRes.messageNumber
                   ELSE /\ rRes'.messageNumber = rRes.messageNumber
                        /\ rRes'.previousCounter = rRes.previousCounter]_vars
    /\ [](rIni # Null =>
            /\ rIni.messageNumber = Len(rSent)
            /\ rIni.previousCounter = 0
            /\ rRes.previousCounter =
                   IF rRes.messageNumber = 0 THEN 0
                   ELSE rRes.messageNumber - 1)

\* C30: the responder has decrypted twice and the initiator encrypted twice
C30_Witness ==
    /\ rIni # Null
    /\ rIni.messageNumber = 2 /\ rIni.previousCounter = 0
    /\ rRes.messageNumber = 2 /\ rRes.previousCounter = 1
    /\ rLast # Null /\ rLast.index >= 1


\* C31: the session establishSession has just stored for a peer with
\* storeSession(p, s) is what getSession(p) returns from that storage, equal
\* to s in every field and never null
C31_StoreThenGet ==
    [][\A t \in TaskIds :
           (/\ sTasks[t].op = "send"
            /\ sTasks[t].pc = "establishSession"
            /\ sTasks'[t].op = "send"
            /\ sTasks'[t].pc = "ratchetEncrypt")
               => GetSession(sKeychain'.sessions, sTasks'[t].peer)
                      = sTasks'[t].session]_vars


\* C32: for peers p # q, a storeSession(q, .) and a deleteSession(q) leave
\* what getSession(p) returns unchanged, and getSession(p) never returns a
\* session that was stored under q
C32_PeersIsolated ==
    [][\A p \in Peers : \A q \in Peers \ {p} :
           /\ (\/ /\ sKeychain'.sessions # sKeychain.sessions
                  /\ sKeychain'.sessions # Null
                  /\ sKeychain'.sessions.username = <<"session_", q>>
               \/ SDeleteSession(q))
                  => GetSession(sKeychain'.sessions, p)
                         = GetSession(sKeychain.sessions, p)
           /\ GetSession(sKeychain'.sessions, p) # Null
                  => sKeychain'.sessions.username = <<"session_", p>>]_vars


\* the messages encrypted on the session sessionId that the relay accepted
PostedOn(sessionId) ==
    {e \in Posted : \E c \in Encrypted : /\ c.call = e.call
                                         /\ c.sessionId = sessionId}

\* C33: when no call is in progress, the sending session stored for a peer
\* has advanced by no more steps than messages of that session were handed
\* to the relay: a sendMessage whose POST failed left the stored session as
\* it was before the call
C33_StoredChainFollowsRelay ==
    \A p \in Peers :
        (/\ AllIdle
         /\ StoredSession(p) # Null
         /\ StoredSession(p).sendingChainKey # Null)
            => StoredSession(p).messageNumber
                   <= Cardinality(PostedOn(StoredSession(p).sessionId))




\* the calls that ended with an error
Failed == {e \in sLog : e.op = "failed"}

\* C34: a decryptIncomingMessage call that fails, in the responder handshake
\* or in ratchetDecrypt, writes nothing to the session storage: the step on
\* which it fails leaves the storage as it was, and every responder session
\* in storage is the newSession of a ratchetDecrypt that succeeded, so a
\* first message that failed left no session and a failure on an existing
\* session left that session as it was
C34_FailedReceiveStoresNothing ==
    [][/\ \A t \in TaskIds :
              (/\ sTasks[t].op = "receive"
               /\ sTasks'[t] = IdleTask
               /\ \E e \in Failed' \ Failed : e.call = sTasks[t].call)
                  => sKeychain'.sessions = sKeychain.sessions
       /\ \A p \in Peers :
              (/\ sKeychain'.sessions # Null
               /\ sKeychain'.sessions.username = <<"session_", p>>
               /\ sKeychain'.sessions.password.receivingChainKey # Null)
                  => \E e \in Decrypted' :
                         /\ e.peer = p
                         /\ e.sessionId
                                = sKeychain'.sessions.password.sessionId
                         /\ e.messageNumber + 1
                                = sKeychain'.sessions.password.messageNumber
      ]_vars

\* C34: a first message passed the responder handshake and ratchetDecrypt
\* threw on it; no session is stored for its sender
C34_Witness ==
    \E e \in Failed :
        /\ e.error = "Malformed UTF-8 data"
        /\ \E r \in Responded : r.call = e.call
        /\ StoredSession(e.peer) = Null


\* the requests GET /keys/:userId has answered with a bundle
Served == {r \in ReqIds : /\ kReqs[r].pc \in {"done", "established"}
                          /\ kReqs[r].status = 200}

\* C35: every bundle served carries the signed pre-key public key, key id
\* and signature that the device whose identity key is in the bundle
\* uploaded through POST /devices, and the initiator's establishSession,
\* which verifies the signature, accepts it
C35_ServedSignatureIsUploaded ==
    \A r \in Served :
        /\ \E d \in DeviceIds :
              /\ kReqs[r].body.identityKey = Registration(d).publicIdentityKey
              /\ kReqs[r].body.signedPreKey = Registration(d).signedPreKey
        /\ kReqs[r].pc = "established" => kReqs[r].result.ok

\* C36: the one-time pre-key of every bundle served was uploaded by the
\* device whose identity key and signed pre-key public key are in the bundle
C36_BundleFromOneDevice ==
    \A r \in Served :
        kReqs[r].body.preKey # Null
            => \E d \in DeviceIds :
                   /\ kReqs[r].body.identityKey
                          = Registration(d).publicIdentityKey
                   /\ kReqs[r].body.signedPreKey.publicKey
                          = Registration(d).signedPreKey.publicKey
                   /\ \E i \in DOMAIN Registration(d).preKeys :
                          Registration(d).preKeys[i] = kReqs[r].body.preKey


\* C38: when a deletePreKey(j) completes and the pool is as a completed
\* deletePreKey(i), i # j, left it, then afterwards neither i nor j is
\* retrievable by getPreKey: the second write does not bring back the key
\* the first call deleted
C38_NoLostDeletion ==
    [][\A t \in PoolTasks :
           (/\ pTasks[t].pc = "write"
            /\ pTasks'[t].pc = "idle"
            /\ pLast # Null
            /\ pPreKeys # Null
            /\ pLast.after = pPreKeys
            /\ pLast.keyId # pTasks[t].keyId)
               => /\ GetPreKey(pPreKeys', pLast.keyId) = Null
                  /\ GetPreKey(pPreKeys', pTasks[t].keyId) = Null]_vars


\* C37: cleanupSession(session) on a session that was the input of
\* ratchetEncrypt or ratchetDecrypt leaves every field of the newSession
\* that call returned as it was, the chain key in use included
C37_CleanupAffectsOnlyItsSession ==
    [][\A i \in DOMAIN bSessions :
           BCleanupSession(i)
               => \A j \in DOMAIN bSessions :
                      bSessions[j].from = i
                          => Deref(bHeap', bSessions[j])
                                 = Deref(bHeap, bSessions[j])]_vars

====
